---- MODULE Spec2Model ----
(***************************************************************************)
(* HAiO vesting program: the vesting accounting engine (unlock curve,      *)
(* schedule creation, batched and single-schedule settlement) and the      *)
(* timelocked rotation of the distribution hub.                            *)
(*                                                                         *)
(* Every instruction is one atomic step: an instruction that returns Err   *)
(* leaves every account as it was (the ledger reverts the transaction) and *)
(* only the outcome of the call is recorded, in `res`.                     *)
(***************************************************************************)
EXTENDS Integers, Sequences, FiniteSets, TLC

(***************************************************************************)
(* Bounds of the model.                                                    *)
(***************************************************************************)
\* Width, in bits, of the scaled-down u64 / i64 (u128 has twice the width).
IntBits == 11
\* Last clock value of the vesting specification.
MaxTime == 4
\* Last clock value of the rotation specification.
MaxHubTime == 11
\* Longest list of (schedule, vault) pairs handed to one crank.
MaxPairs == 2
\* Tokens the admin's source token account holds at deployment.
InitialFunding == 12
\* Schedule ids a caller may name (0 .. MaxScheduleId).
MaxScheduleId == 1

(***************************************************************************)
(* Program constants.                                                      *)
(***************************************************************************)
MAX_SCHEDULES_PER_CRANK == 10
\* The test-utils build's timelock (the production build's is 48 hours).
HUB_UPDATE_TIMELOCK == 5
\* `as u8` keeps the value modulo 2^8.
U8_MODULUS == 256

I64_MAX == 2 ^ (IntBits - 1) - 1
I64_MIN == -(2 ^ (IntBits - 1))
U64_MAX == 2 ^ IntBits - 1
U128_MAX == 2 ^ (2 * IntBits) - 1
U8_MAX == U8_MODULUS - 1

(***************************************************************************)
(* Identities (Pubkey).  DefaultPubkey is Pubkey::default().               *)
(***************************************************************************)
DefaultPubkey == "default"
Admin == "admin"
Other == "other"
Hub1 == "hub1"
Hub2 == "hub2"
Recipient == "recipient"
Mint1 == "mint1"
Mint2 == "mint2"
\* Option<T>: None is the empty sequence, Some(x) the sequence of x alone.
None == <<>>
Some(x) == <<x>>
Unwrap(o) == o[1]

Signers == {Admin, Other}

(***************************************************************************)
(* Result<T>                                                               *)
(***************************************************************************)
Ok(v) == [ok |-> TRUE, val |-> v, err |-> "Ok"]
Err(e) == [ok |-> FALSE, val |-> 0, err |-> e]

\* A faulty variant: the first argument, whatever the second.
Min_unclamped(a, b) == a

Min(a, b) == IF a <= b THEN a ELSE b

\* `let v = ...;` followed by the code F that uses v: the value is computed once.
Bind(v, F(_)) == CHOOSE r \in { F(x) : x \in {v} } : TRUE

checked_sub_i64(a, b) ==
    IF a - b > I64_MAX \/ a - b < I64_MIN THEN Err("MathOverflow") ELSE Ok(a - b)

checked_add_i64(a, b) ==
    IF a + b > I64_MAX \/ a + b < I64_MIN THEN Err("MathOverflow") ELSE Ok(a + b)

\* A faulty variant: the sum wraps around at 2^64.
wrapping_add_u64(a, b) == Ok((a + b) % (U64_MAX + 1))

checked_add_u64(a, b) ==
    IF a + b > U64_MAX THEN Err("MathOverflow") ELSE Ok(a + b)

checked_mul_u128(a, b) ==
    IF a * b > U128_MAX THEN Err("MathOverflow") ELSE Ok(a * b)

\* A faulty variant: the quotient is rounded up.
checked_div_u128_rounding_up(a, b) ==
    IF b = 0 THEN Err("MathOverflow") ELSE Ok((a + b - 1) \div b)

checked_div_u128(a, b) ==
    IF b = 0 THEN Err("MathOverflow") ELSE Ok(a \div b)

\* `x as u128` of an i64: a negative value is sign-extended.
as_u128(x) == IF x >= 0 THEN x ELSE x + U128_MAX + 1

u64_try_from(x) == IF x > U64_MAX THEN Err("MathOverflow") ELSE Ok(x)

\* A faulty variant: nothing is subtracted.
saturating_sub_nothing(a, b) == a

saturating_sub(a, b) == IF a >= b THEN a - b ELSE 0

(***************************************************************************)
(* VestingSchedule                                                         *)
(***************************************************************************)
\* A faulty variant: the time left to the end is taken for the time elapsed.
elapsed_until_vesting_end(s, current_timestamp) ==
    checked_sub_i64(s.vesting_end_timestamp, current_timestamp)

elapsed_since_vesting_start(s, current_timestamp) ==
    checked_sub_i64(current_timestamp, s.vesting_start_timestamp)

\* A faulty variant: the end of vesting itself does not count as ended.
vesting_ended_strictly(s, current_timestamp) ==
    current_timestamp > s.vesting_end_timestamp

\* "After vesting end, everything is unlocked".
vesting_ended(s, current_timestamp) ==
    current_timestamp >= s.vesting_end_timestamp

calculate_unlocked_amount(s, current_timestamp) ==
    IF ~s.is_initialized THEN Err("InvalidVestingScheduleData")
    ELSE IF current_timestamp < s.cliff_timestamp THEN Ok(0)
    ELSE IF vesting_ended(s, current_timestamp) THEN Ok(s.total_amount)
    ELSE IF s.vesting_start_timestamp >= s.vesting_end_timestamp
            \/ current_timestamp < s.vesting_start_timestamp THEN Ok(0)
    ELSE
    Bind(elapsed_since_vesting_start(s, current_timestamp), LAMBDA elapsed :
      IF ~elapsed.ok THEN elapsed ELSE
    Bind(checked_sub_i64(s.vesting_end_timestamp, s.vesting_start_timestamp),
         LAMBDA duration :
      IF ~duration.ok THEN duration
      ELSE IF duration.val = 0 THEN Ok(s.total_amount) ELSE
    Bind(checked_mul_u128(s.total_amount, as_u128(elapsed.val)), LAMBDA product :
      IF ~product.ok THEN product ELSE
    Bind(checked_div_u128(product.val, as_u128(duration.val)), LAMBDA quotient :
      IF ~quotient.ok THEN quotient ELSE
    Bind(u64_try_from(quotient.val), LAMBDA narrowed :
      IF ~narrowed.ok THEN narrowed
      ELSE Ok(Min(narrowed.val, s.total_amount)))))))

\* A faulty variant: the amount already transferred is not deducted.
get_transferable_amount_not_deducted(s, current_timestamp) ==
    calculate_unlocked_amount(s, current_timestamp)

get_transferable_amount(s, current_timestamp) ==
    Bind(calculate_unlocked_amount(s, current_timestamp), LAMBDA unlocked :
      IF ~unlocked.ok THEN unlocked
      ELSE Ok(saturating_sub(unlocked.val, s.amount_transferred)))

\* A faulty variant: the new schedule counts its whole amount as transferred.
VestingSchedule_init_already_transferred(schedule_id, recipient, recipient_token_account, mint, token_vault, depositor, total_amount, cliff, start, end) ==
    [ schedule_id |-> schedule_id,
      recipient |-> recipient,
      recipient_token_account |-> recipient_token_account,
      mint |-> mint,
      token_vault |-> token_vault,
      depositor |-> depositor,
      total_amount |-> total_amount,
      cliff_timestamp |-> cliff,
      vesting_start_timestamp |-> start,
      vesting_end_timestamp |-> end,
      amount_transferred |-> total_amount,
      is_initialized |-> TRUE ]

VestingSchedule_init(schedule_id, recipient, recipient_token_account, mint, token_vault, depositor, total_amount, cliff, start, end) ==
    [ schedule_id |-> schedule_id,
      recipient |-> recipient,
      recipient_token_account |-> recipient_token_account,
      mint |-> mint,
      token_vault |-> token_vault,
      depositor |-> depositor,
      total_amount |-> total_amount,
      cliff_timestamp |-> cliff,
      vesting_start_timestamp |-> start,
      vesting_end_timestamp |-> end,
      amount_transferred |-> 0,
      is_initialized |-> TRUE ]

(***************************************************************************)
(* Accounts                                                                *)
(***************************************************************************)
\* An account slot is None while no account exists at the address.
NoAccount == None

ScheduleIds == 0 .. MaxScheduleId

\* Addresses: the schedule and vault PDAs of an id, and an account outside the
\* program that carries a VestingSchedule layout with is_initialized = false.
SchedulePda(id) == [kind |-> "vesting_schedule", id |-> id]
VaultPda(id) == [kind |-> "vesting_vault", id |-> id]
FakeSchedule == [kind |-> "fake_schedule", id |-> 0]

\* Token accounts that exist from the start; owner and mint never change.
TokenAccountKeys == {"depositor", "hubA1", "hubA2", "hubB1", "hubZ", "rcp", "mal"}

TokenAccountOwner(k) ==
    CASE k = "depositor" -> Admin
      [] k = "hubA1" -> Hub1
      [] k = "hubA2" -> Hub2
      [] k = "hubB1" -> Hub1
      [] k = "hubZ" -> DefaultPubkey
      [] k = "rcp" -> Recipient
      [] k = "mal" -> Other

TokenAccountMint(k) == IF k = "hubB1" THEN Mint2 ELSE Mint1

VARIABLES
    clock,            \* Clock::get()?.unix_timestamp
    program_config,   \* the ProgramConfig PDA, NoAccount before initialize
    schedules,        \* id -> VestingSchedule account, NoAccount when absent
    vaults,           \* id -> vault token account, NoAccount when absent
    balances,         \* amount of each token account of TokenAccountKeys
    proposed_at,      \* clock value at which pending_hub was last assigned
    res,              \* the last instruction and its outcome
    probe             \* inputs and results of the unlock function (SpecUnlock)

vars == <<clock, program_config, schedules, vaults, balances, proposed_at, res, probe>>

NoCall == [op |-> "none", err |-> "Ok", arg |-> <<>>, outcomes |-> <<>>, processed |-> 0]

Call(op, err, arg) == [op |-> op, err |-> err, arg |-> arg, outcomes |-> <<>>,
                       processed |-> 0]

NoProbe == [done |-> FALSE]

InitAccounts ==
    /\ clock = 0
    /\ program_config = NoAccount
    /\ schedules = [id \in ScheduleIds |-> NoAccount]
    /\ vaults = [id \in ScheduleIds |-> NoAccount]
    /\ balances = [k \in TokenAccountKeys |-> IF k = "depositor" THEN InitialFunding ELSE 0]
    /\ proposed_at = None
    /\ res = NoCall

Init == InitAccounts /\ probe = NoProbe

(***************************************************************************)
(* The clock: non-decreasing, advanced by the ledger.                      *)
(***************************************************************************)
Tick(limit) ==
    /\ clock < limit
    /\ clock' = clock + 1
    /\ UNCHANGED <<program_config, schedules, vaults, balances, proposed_at, res, probe>>

(***************************************************************************)
(* initialize                                                              *)
(***************************************************************************)
initialize_handler(admin) ==
    [ admin |-> admin,
      distribution_hub |-> DefaultPubkey,
      pending_hub |-> None,
      hub_update_timelock |-> None,
      total_schedules |-> 0 ]

\* A faulty variant: the configuration is written whether or not it exists.
Initialize_again(signer) ==
    /\ program_config' = Some(initialize_handler(signer))
    /\ res' = Call("initialize", "Ok", <<signer>>)
    /\ UNCHANGED <<clock, schedules, vaults, balances, proposed_at, probe>>

Initialize(signer) ==
    IF program_config # NoAccount
    THEN \* `init` on an existing account fails
         /\ res' = Call("initialize", "AccountAlreadyInUse", <<signer>>)
         /\ UNCHANGED <<clock, program_config, schedules, vaults, balances, proposed_at, probe>>
    ELSE /\ program_config' = Some(initialize_handler(signer))
         /\ res' = Call("initialize", "Ok", <<signer>>)
         /\ UNCHANGED <<clock, schedules, vaults, balances, proposed_at, probe>>

(***************************************************************************)
(* has_one = admin                                                         *)
(***************************************************************************)
\* A faulty variant: any signer passes.
has_one_admin_anyone(config, admin) == TRUE

\* The constraint `has_one = admin` on program_config.
has_one_admin(config, admin) == config.admin = admin

(***************************************************************************)
(* update_distribution_hub                                                 *)
(***************************************************************************)
\* A faulty variant: the deadline itself is still too early.
timelock_expired_strictly(current_timestamp, timelock_expiry) ==
    current_timestamp > timelock_expiry

timelock_expired(current_timestamp, timelock_expiry) ==
    current_timestamp >= timelock_expiry

\* A faulty variant: the proposal expires at once.
new_timelock_expiry_without_delay(current_timestamp) ==
    checked_add_i64(current_timestamp, 0)

new_timelock_expiry(current_timestamp) ==
    checked_add_i64(current_timestamp, HUB_UPDATE_TIMELOCK)

\* A faulty variant: any address may be proposed.
proposal_error_unchecked(config, new_hub_address) == "Ok"

\* Case 3's checks: the proposal is neither the hub nor the pending hub.
proposal_error(config, new_hub_address) ==
    IF ~(new_hub_address # config.distribution_hub) THEN "HubAddressNotChanged"
    ELSE IF config.pending_hub # None /\ ~(new_hub_address # Unwrap(config.pending_hub))
    THEN "HubAddressNotChanged"
    ELSE "Ok"

\* A faulty variant: the first address is recorded as a proposal.
initial_setup_as_proposal(config, new_hub_address) ==
    [config EXCEPT !.pending_hub = Some(new_hub_address),
                   !.hub_update_timelock = Some(0)]

\* A faulty variant: the initial setup also resets the schedule counter.
initial_setup_resetting_counter(config, new_hub_address) ==
    [config EXCEPT !.distribution_hub = new_hub_address, !.total_schedules = 0]

\* Case 1's assignment: the address becomes the hub at once.
initial_setup(config, new_hub_address) ==
    [config EXCEPT !.distribution_hub = new_hub_address]

\* A faulty variant: the confirmation leaves the deadline in place.
confirm_pending_update_keeping_deadline(config, new_hub_address) ==
    [config EXCEPT !.distribution_hub = new_hub_address,
                   !.pending_hub = None]

\* Case 2's assignments: the pending hub becomes the hub, nothing stays pending.
confirm_pending_update(config, new_hub_address) ==
    [config EXCEPT !.distribution_hub = new_hub_address,
                   !.pending_hub = None,
                   !.hub_update_timelock = None]

\* The handler's result on configuration `config` at time `now`:
\* the error, and the configuration it leaves.
\* A faulty variant: no input is taken for the pending address.
is_pending_hub_never(config, new_hub_address) == FALSE

\* Case 2's condition: the input is the address that is pending.
is_pending_hub(config, new_hub_address) ==
    config.pending_hub # None /\ new_hub_address = Unwrap(config.pending_hub)

update_distribution_hub_handler(config, now, new_hub_address) ==
    IF config.distribution_hub = DefaultPubkey
    THEN \* Case 1: initial setup
         IF new_hub_address = DefaultPubkey
         THEN [err |-> "InvalidAmount", config |-> config, event |-> <<>>]
         ELSE [err |-> "Ok",
               config |-> initial_setup(config, new_hub_address),
               event |-> <<"initialized">>]
    ELSE IF is_pending_hub(config, new_hub_address)
    THEN \* Case 2: confirming a pending update
         IF config.hub_update_timelock = None
         THEN [err |-> "TimelockNotExpired", config |-> config, event |-> <<>>]
         ELSE IF ~timelock_expired(now, Unwrap(config.hub_update_timelock))
         THEN [err |-> "TimelockNotExpired", config |-> config, event |-> <<>>]
         ELSE [err |-> "Ok",
               config |-> confirm_pending_update(config, new_hub_address),
               event |-> <<"updated">>]
    ELSE \* Case 3: proposing a new update
         IF proposal_error(config, new_hub_address) # "Ok"
         THEN [err |-> proposal_error(config, new_hub_address), config |-> config,
               event |-> <<>>]
         ELSE LET expiry == new_timelock_expiry(now)
              IN  IF ~expiry.ok
                  THEN [err |-> expiry.err, config |-> config, event |-> <<>>]
                  ELSE [err |-> "Ok",
                        config |-> [config EXCEPT !.pending_hub = Some(new_hub_address),
                                                  !.hub_update_timelock = Some(expiry.val)],
                        event |-> <<"proposed">>]

\* The clock value at which the pending hub of `after` was assigned.
ProposedAt(before, after) ==
    IF after.pending_hub = before.pending_hub
       /\ after.hub_update_timelock = before.hub_update_timelock
    THEN proposed_at
    ELSE IF after.pending_hub = None THEN None ELSE Some(clock)

UpdateDistributionHub(signer, new_hub_address) ==
    IF program_config = NoAccount
    THEN /\ res' = Call("update_distribution_hub", "AccountNotInitialized",
                        <<signer, new_hub_address>>)
         /\ UNCHANGED <<clock, program_config, schedules, vaults, balances, proposed_at, probe>>
    ELSE IF ~has_one_admin(Unwrap(program_config), signer)
    THEN \* has_one = admin
         /\ res' = Call("update_distribution_hub", "Unauthorized",
                        <<signer, new_hub_address>>)
         /\ UNCHANGED <<clock, program_config, schedules, vaults, balances, proposed_at, probe>>
    ELSE LET r == update_distribution_hub_handler(Unwrap(program_config), clock,
                                                  new_hub_address)
         IN  /\ program_config' = Some(r.config)
             /\ proposed_at' = ProposedAt(Unwrap(program_config), r.config)
             /\ res' = [Call("update_distribution_hub", r.err, <<signer, new_hub_address>>)
                        EXCEPT !.outcomes = r.event]
             /\ UNCHANGED <<clock, schedules, vaults, balances, probe>>

(***************************************************************************)
(* create_vesting_schedule                                                 *)
(***************************************************************************)
\* A faulty variant: the counter is left as it was.
increment_total_schedules_forgotten(config) == Ok(config)

increment_total_schedules(config) ==
    IF config.total_schedules + 1 > U64_MAX
    THEN Err("AccountDidNotSerialize")
    ELSE Ok([config EXCEPT !.total_schedules = @ + 1])

\* A faulty variant: the order of the timestamps is not checked.
create_vesting_schedule_checks_any_timestamps(config, schedule_id, p, recipient_token_account) ==
    IF ~(p.total_amount > 0) THEN "InvalidAmount"
    ELSE IF ~(p.recipient # DefaultPubkey) THEN "InvalidRecipient"
    ELSE IF ~(TokenAccountOwner(recipient_token_account) = p.recipient)
    THEN "RecipientAccountOwnerMismatch"
    ELSE IF ~(schedule_id = config.total_schedules) THEN "ScheduleIdConflict"
    ELSE "Ok"

\* The handler's checks without the comparison of schedule_id with the counter.
create_vesting_schedule_checks_any_id(config, schedule_id, p, recipient_token_account) ==
    IF ~(p.total_amount > 0) THEN "InvalidAmount"
    ELSE IF ~(p.recipient # DefaultPubkey) THEN "InvalidRecipient"
    ELSE IF ~(TokenAccountOwner(recipient_token_account) = p.recipient)
    THEN "RecipientAccountOwnerMismatch"
    ELSE IF ~(p.cliff_timestamp <= p.vesting_start_timestamp
              /\ p.vesting_start_timestamp < p.vesting_end_timestamp)
    THEN "InvalidTimestamps"
    ELSE "Ok"

\* The handler's checks, in the order of the code; "Ok" when all pass.
create_vesting_schedule_checks(config, schedule_id, p, recipient_token_account) ==
    IF ~(p.total_amount > 0) THEN "InvalidAmount"
    ELSE IF ~(p.recipient # DefaultPubkey) THEN "InvalidRecipient"
    ELSE IF ~(TokenAccountOwner(recipient_token_account) = p.recipient)
    THEN "RecipientAccountOwnerMismatch"
    ELSE IF ~(p.cliff_timestamp <= p.vesting_start_timestamp
              /\ p.vesting_start_timestamp < p.vesting_end_timestamp)
    THEN "InvalidTimestamps"
    ELSE IF ~(schedule_id = config.total_schedules) THEN "ScheduleIdConflict"
    ELSE "Ok"

\* A faulty variant: the transfer does not look at the source's balance.
token_transfer_error_unchecked(source_amount, amount) == "Ok"

\* token::transfer of `amount` out of an account holding `source_amount`.
token_transfer_error(source_amount, amount) ==
    IF source_amount < amount THEN "InsufficientFunds" ELSE "Ok"

\* The account constraints of CreateVestingSchedule, then the handler's checks,
\* the token transfer and the counter increment.  The two `init` accounts are
\* created before the constraints of the other accounts are evaluated.
create_vesting_schedule_error(signer, schedule_id, p, depositor_token_account, recipient_token_account, mint) ==
    IF program_config = NoAccount THEN "AccountNotInitialized"
    ELSE IF schedules[schedule_id] # NoAccount \/ vaults[schedule_id] # NoAccount
    THEN "AccountAlreadyInUse"
    ELSE IF ~has_one_admin(Unwrap(program_config), signer) THEN "Unauthorized"
    ELSE IF TokenAccountMint(depositor_token_account) # mint THEN "MintMismatch"
    ELSE IF TokenAccountOwner(depositor_token_account) # signer THEN "Unauthorized"
    ELSE IF TokenAccountMint(recipient_token_account) # mint
    THEN "RecipientAccountMintMismatch"
    ELSE LET e == create_vesting_schedule_checks(Unwrap(program_config), schedule_id, p,
                                                 recipient_token_account)
         IN  IF e # "Ok" THEN e
             ELSE IF token_transfer_error(balances[depositor_token_account],
                                          p.total_amount) # "Ok"
             THEN token_transfer_error(balances[depositor_token_account], p.total_amount)
             ELSE increment_total_schedules(Unwrap(program_config)).err

CreateVestingSchedule(signer, schedule_id, p, depositor_token_account, recipient_token_account, mint) ==
    LET e == create_vesting_schedule_error(signer, schedule_id, p, depositor_token_account,
                                           recipient_token_account, mint)
    IN  IF e # "Ok"
        THEN /\ res' = Call("create_vesting_schedule", e, <<signer, schedule_id>>)
             /\ UNCHANGED <<clock, program_config, schedules, vaults, balances, proposed_at, probe>>
        ELSE /\ schedules' = [schedules EXCEPT ![schedule_id] =
                  Some(VestingSchedule_init(schedule_id, p.recipient, recipient_token_account,
                                            mint, VaultPda(schedule_id), signer,
                                            p.total_amount, p.cliff_timestamp,
                                            p.vesting_start_timestamp,
                                            p.vesting_end_timestamp))]
             /\ vaults' = [vaults EXCEPT ![schedule_id] =
                  Some([owner |-> SchedulePda(schedule_id), mint |-> mint,
                        amount |-> p.total_amount])]
             /\ balances' = [balances EXCEPT ![depositor_token_account] = @ - p.total_amount]
             /\ program_config' = Some(increment_total_schedules(Unwrap(program_config)).val)
             /\ res' = Call("create_vesting_schedule", "Ok", <<signer, schedule_id, p>>)
             /\ UNCHANGED <<clock, proposed_at, probe>>

\* create_vesting_schedule as instructions/create_vesting_schedule.rs has it:
\* the depositor's balance is an account constraint, the recipient is not
\* checked.
instructions_create_vesting_schedule_error(signer, schedule_id, p, depositor_token_account, mint) ==
    IF program_config = NoAccount THEN "AccountNotInitialized"
    ELSE IF schedules[schedule_id] # NoAccount \/ vaults[schedule_id] # NoAccount
    THEN "AccountAlreadyInUse"
    ELSE IF ~has_one_admin(Unwrap(program_config), signer) THEN "Unauthorized"
    ELSE IF TokenAccountMint(depositor_token_account) # mint THEN "MintMismatch"
    ELSE IF TokenAccountOwner(depositor_token_account) # signer THEN "Unauthorized"
    ELSE IF ~(balances[depositor_token_account] >= p.total_amount) THEN "InvalidAmount"
    ELSE IF ~(p.total_amount > 0) THEN "InvalidAmount"
    ELSE IF ~(p.cliff_timestamp <= p.vesting_start_timestamp
              /\ p.vesting_start_timestamp < p.vesting_end_timestamp)
    THEN "InvalidTimestamps"
    ELSE IF ~(schedule_id = Unwrap(program_config).total_schedules)
    THEN "ScheduleIdConflict"
    ELSE checked_add_u64(Unwrap(program_config).total_schedules, 1).err

\* Inputs of create_vesting_schedule.
CreateAmounts == {0, 5, 20}
CreateTimestamps == { <<1, 2, 4>>, <<I64_MIN, I64_MIN, I64_MAX>>,
                      <<2, 1, 4>>, <<1, 4, 4>> }
CreateParams ==
    { [recipient |-> r, total_amount |-> a, cliff_timestamp |-> t[1],
       vesting_start_timestamp |-> t[2], vesting_end_timestamp |-> t[3]] :
      r \in {Recipient}, a \in CreateAmounts, t \in CreateTimestamps }

(***************************************************************************)
(* crank_vesting_schedules (batch, to the distribution hub)                *)
(***************************************************************************)
\* VestingSchedule::try_deserialize on the data of the account at `key`, as the
\* accounts stand in `st`: None when the data is no VestingSchedule.
ScheduleData(st, key) ==
    IF key.kind = "vesting_schedule" /\ key.id \in ScheduleIds THEN st.schedules[key.id]
    ELSE IF key.kind = "fake_schedule"
    THEN Some([VestingSchedule_init(0, DefaultPubkey, "rcp", Mint1, VaultPda(0),
                                    DefaultPubkey, 0, 0, 0, 0)
               EXCEPT !.is_initialized = FALSE])
    ELSE None

\* TokenAccount::try_deserialize on the data of the account at `key`.
VaultData(st, key) ==
    IF key.kind = "vesting_vault" /\ key.id \in ScheduleIds THEN st.vaults[key.id]
    ELSE None

\* A faulty variant: a failing pair is logged and the loop goes on.
Reject_pair_only(st, e) == [st EXCEPT !.outcomes = Append(@, "rejected")]

\* `require!` or `?` failing inside the loop: the instruction returns the error.
Reject(st, e) == [st EXCEPT !.err = e, !.outcomes = Append(@, "rejected")]
Skip(st, why) == [st EXCEPT !.outcomes = Append(@, why)]

\* A faulty variant: the counter is written back as it was read.
new_amount_transferred_unchanged(current_transferred, actual_transfer_amount) ==
    checked_add_u64(current_transferred, 0)

\* A faulty variant: the transfer is taken off the counter.
new_amount_transferred_subtracted(current_transferred, actual_transfer_amount) ==
    Ok(current_transferred - actual_transfer_amount)

\* A faulty variant: the transfer is added to the counter twice.
new_amount_transferred_twice(current_transferred, actual_transfer_amount) ==
    checked_add_u64(current_transferred + actual_transfer_amount, actual_transfer_amount)

new_amount_transferred(current_transferred, actual_transfer_amount) ==
    checked_add_u64(current_transferred, actual_transfer_amount)

\* A faulty variant: the flag is not looked at.
schedule_is_initialized_unchecked(schedule) == TRUE

\* The flag that `require!(.., InvalidVestingScheduleData)` tests.
schedule_is_initialized(schedule) == schedule.is_initialized

\* One iteration of the loop, on the pair (schedule_key, vault_key).
crank_pair(st, schedule_key, vault_key, hub_mint, current_timestamp) ==
    Bind(ScheduleData(st, schedule_key), LAMBDA sd :
    Bind(VaultData(st, vault_key), LAMBDA vd :
    IF sd = None THEN Reject(st, "AccountDidNotDeserialize")
    ELSE IF ~schedule_is_initialized(Unwrap(sd))
    THEN Reject(st, "InvalidVestingScheduleData")
    ELSE IF vd = None THEN Reject(st, "AccountDidNotDeserialize")
    ELSE
    Bind(Unwrap(sd), LAMBDA schedule :
    Bind(Unwrap(vd), LAMBDA vault :
    IF vault.owner # schedule_key THEN Reject(st, "VaultAuthorityMismatch")
    ELSE IF schedule.token_vault # vault_key THEN Reject(st, "VaultMismatch")
    ELSE IF vault.mint # schedule.mint THEN Reject(st, "MintMismatch")
    ELSE IF schedule.mint # hub_mint THEN Reject(st, "HubAccountMintMismatch")
    ELSE IF schedule.amount_transferred >= schedule.total_amount
    THEN Skip(st, "fully_processed")
    ELSE
    Bind(get_transferable_amount(schedule, current_timestamp), LAMBDA transferable :
    IF ~transferable.ok THEN Reject(st, transferable.err)
    ELSE IF transferable.val = 0 THEN Skip(st, "no_transferable")
    ELSE
    Bind(Min(transferable.val, vault.amount), LAMBDA actual :
    \* re-read of amount_transferred from the account data
    Bind(Unwrap(ScheduleData(st, schedule_key)).amount_transferred,
         LAMBDA current_amount_transferred :
    IF actual = 0 THEN Skip(st, "vault_empty")
    ELSE IF current_amount_transferred # schedule.amount_transferred
    THEN Skip(st, "concurrent_modification")
    ELSE
    Bind(new_amount_transferred(schedule.amount_transferred, actual), LAMBDA new_amount :
    IF actual > vault.amount THEN Reject(st, "InsufficientFunds")
    ELSE IF ~new_amount.ok THEN Reject(st, new_amount.err)
    ELSE IF st.processed + 1 > U8_MAX THEN Reject(st, "MathOverflow")
    ELSE [st EXCEPT
            !.vaults[vault_key.id] = Some([vault EXCEPT !.amount = @ - actual]),
            !.hub_credit = @ + actual,
            !.schedules[schedule_key.id] =
                Some([schedule EXCEPT !.amount_transferred = new_amount.val]),
            !.processed = @ + 1,
            !.outcomes = Append(@, "processed")]))))))))

\* The number of pairs one call attempts.
num_schedules_to_process(max_schedules, remaining_len) ==
    Min(Min(max_schedules, MAX_SCHEDULES_PER_CRANK), (remaining_len \div 2) % U8_MODULUS)

RECURSIVE crank_loop(_, _, _, _, _, _)
crank_loop(st, remaining, i, n, hub_mint, current_timestamp) ==
    IF i >= n \/ st.err # "Ok" THEN st
    ELSE IF i * 2 >= Len(remaining) \/ i * 2 + 1 >= Len(remaining)
    THEN crank_loop(Skip(st, "invalid_index"), remaining, i + 1, n, hub_mint,
                    current_timestamp)
    ELSE crank_loop(crank_pair(st, remaining[i * 2 + 1], remaining[i * 2 + 2], hub_mint,
                               current_timestamp),
                    remaining, i + 1, n, hub_mint, current_timestamp)

\* A faulty variant: the hub is taken as set whatever it holds.
distribution_hub_is_set_unchecked(config) == TRUE

\* The handler's first check: the hub is not Pubkey::default().
distribution_hub_is_set(config) == config.distribution_hub # DefaultPubkey

\* A faulty variant: the owner of the hub's token account is not compared with
\* the hub.
hub_token_account_constraints_any_owner(config, hub_token_account, mint) ==
    IF TokenAccountMint(hub_token_account) # mint THEN "HubAccountMintMismatch" ELSE "Ok"

\* The constraints of distribution_hub_token_account.
hub_token_account_constraints(config, hub_token_account, mint) ==
    IF TokenAccountMint(hub_token_account) # mint THEN "HubAccountMintMismatch"
    ELSE IF TokenAccountOwner(hub_token_account) # config.distribution_hub
    THEN "HubAccountOwnerMismatch"
    ELSE "Ok"

\* The whole instruction on the accounts (schedules `ss`, vaults `vs`, configuration
\* `config`): the account constraints, then the handler.
crank_vesting_schedules_handler(config, ss, vs, now, hub_token_account, mint, remaining, max_schedules) ==
    LET st0 == [schedules |-> ss, vaults |-> vs, hub_credit |-> 0, processed |-> 0,
                outcomes |-> <<>>, err |-> "Ok"]
        n == num_schedules_to_process(max_schedules, Len(remaining))
    IN
    IF config = NoAccount THEN [st0 EXCEPT !.err = "AccountNotInitialized"]
    ELSE IF hub_token_account_constraints(Unwrap(config), hub_token_account, mint) # "Ok"
    THEN [st0 EXCEPT !.err =
             hub_token_account_constraints(Unwrap(config), hub_token_account, mint)]
    ELSE IF ~distribution_hub_is_set(Unwrap(config))
    THEN [st0 EXCEPT !.err = "DistributionHubNotSet"]
    ELSE IF ~(Len(remaining) >= n * 2)
    THEN [st0 EXCEPT !.err = "TooManyAccountsToProcess"]
    ELSE crank_loop(st0, remaining, 0, n, TokenAccountMint(hub_token_account), now)

\* A faulty variant: the hub's token account is set to the amount paid.
credit_hub_overwriting(bal, hub_token_account, amount) ==
    [bal EXCEPT ![hub_token_account] = amount]

\* The token transfers of a call, as the hub's token account sees them.
credit_hub(bal, hub_token_account, amount) ==
    [bal EXCEPT ![hub_token_account] = @ + amount]

\* One call of the instruction on a ledger: its outcome and the accounts after
\* it.  A call that returns Err commits nothing.
crank_call(config, ss, vs, bal, now, c) ==
    Bind(crank_vesting_schedules_handler(config, ss, vs, now, c.hub, c.mint,
                                         c.remaining, c.max_schedules), LAMBDA st :
      IF st.err # "Ok"
      THEN [err |-> st.err, outcomes |-> st.outcomes, processed |-> st.processed,
            schedules |-> ss, vaults |-> vs, balances |-> bal]
      ELSE [err |-> st.err, outcomes |-> st.outcomes, processed |-> st.processed,
            schedules |-> st.schedules, vaults |-> st.vaults,
            balances |-> credit_hub(bal, c.hub, st.hub_credit)])

CrankVestingSchedules(c) ==
    \E r \in {crank_call(program_config, schedules, vaults, balances, clock, c)} :
        /\ schedules' = r.schedules
        /\ vaults' = r.vaults
        /\ balances' = r.balances
        /\ res' = [op |-> "crank_vesting_schedules", err |-> r.err, arg |-> <<c.hub>>,
                   outcomes |-> r.outcomes, processed |-> r.processed]
        /\ UNCHANGED <<clock, program_config, proposed_at, probe>>

\* Inputs of crank_vesting_schedules: the matched pairs of the first two ids, a
\* schedule with another schedule's vault, and the uninitialized record.
CrankPairs ==
    { <<SchedulePda(0), VaultPda(0)>>, <<SchedulePda(1), VaultPda(1)>>,
      <<SchedulePda(0), VaultPda(1)>>, <<FakeSchedule, VaultPda(0)>> }

RECURSIVE PairLists(_)
PairLists(n) ==
    IF n = 0 THEN { <<>> }
    ELSE PairLists(n - 1)
         \cup { l \o p : l \in { x \in PairLists(n - 1) : Len(x) = 2 * (n - 1) },
                         p \in CrankPairs }

RemainingAccounts == PairLists(MaxPairs)
HubAccountArgs == { <<"hubA1", Mint1>>, <<"hubA2", Mint1>>, <<"hubB1", Mint2>>,
                    <<"hubB1", Mint1>>, <<"hubZ", Mint1>> }

\* The hub's own token account is tried with every list, and with max_schedules = 1
\* on the lists of two matched pairs; the other accounts with one matched pair.
CrankInputs ==
    { [hub |-> "hubA1", mint |-> Mint1, remaining |-> rem,
       max_schedules |-> MAX_SCHEDULES_PER_CRANK] : rem \in RemainingAccounts }
    \cup
    { [hub |-> "hubA1", mint |-> Mint1,
       remaining |-> <<SchedulePda(i), VaultPda(i), SchedulePda(j), VaultPda(j)>>,
       max_schedules |-> 1] : i \in {0, 1}, j \in {0, 1} }
    \cup
    { [hub |-> h[1], mint |-> h[2], remaining |-> <<SchedulePda(0), VaultPda(0)>>,
       max_schedules |-> MAX_SCHEDULES_PER_CRANK] : h \in HubAccountArgs }

(***************************************************************************)
(* crank_vesting_schedule (single schedule, to the recipient)              *)
(***************************************************************************)
\* A token account as an instruction sees it: its address and its data.
TokenAccount(k) == [key |-> k, mint |-> TokenAccountMint(k), owner |-> TokenAccountOwner(k)]

\* A faulty variant: any destination is accepted.
recipient_token_account_constraints_any_account(schedule, account) == "Ok"

\* The three constraints on recipient_token_account.
recipient_token_account_constraints(schedule, account) ==
    IF ~(account.key = schedule.recipient_token_account) THEN "RecipientAccountMismatch"
    ELSE IF ~(account.mint = schedule.mint) THEN "RecipientAccountMintMismatch"
    ELSE IF ~(account.owner = schedule.recipient) THEN "RecipientAccountOwnerMismatch"
    ELSE "Ok"

\* The account constraints of the single-schedule crank.
crank_vesting_schedule_constraints(schedule, vault, recipient_token_account, mint) ==
    IF vault.owner # SchedulePda(schedule.schedule_id) THEN "VaultAuthorityMismatch"
    ELSE IF vault.mint # schedule.mint THEN "MintMismatch"
    ELSE IF recipient_token_account_constraints(
               schedule, TokenAccount(recipient_token_account)) # "Ok"
    THEN recipient_token_account_constraints(schedule, TokenAccount(recipient_token_account))
    ELSE IF mint # schedule.mint THEN "MintMismatch"
    ELSE "Ok"

\* The handler: the error, the amount moved and the branch taken.
crank_vesting_schedule_handler(schedule, vault, current_timestamp) ==
    IF ~schedule.is_initialized
    THEN [err |-> "InvalidVestingScheduleData", amount |-> 0, outcome |-> "rejected"]
    ELSE IF schedule.amount_transferred >= schedule.total_amount
    THEN [err |-> "Ok", amount |-> 0, outcome |-> "fully_processed"]
    ELSE
    Bind(get_transferable_amount(schedule, current_timestamp), LAMBDA transferable :
    IF ~transferable.ok
    THEN [err |-> transferable.err, amount |-> 0, outcome |-> "rejected"]
    ELSE IF transferable.val = 0
    THEN [err |-> "Ok", amount |-> 0, outcome |-> "no_transferable"]
    ELSE
    Bind(Min(transferable.val, vault.amount), LAMBDA actual :
    IF actual = 0 THEN [err |-> "Ok", amount |-> 0, outcome |-> "vault_empty"]
    ELSE IF ~checked_add_u64(schedule.amount_transferred, actual).ok
    THEN [err |-> "MathOverflow", amount |-> 0, outcome |-> "rejected"]
    ELSE [err |-> "Ok", amount |-> actual, outcome |-> "processed"]))

CrankVestingSchedule(schedule_id, recipient_token_account, mint) ==
    LET exists == program_config # NoAccount /\ schedules[schedule_id] # NoAccount
                  /\ vaults[schedule_id] # NoAccount
        schedule == Unwrap(schedules[schedule_id])
        vault == Unwrap(vaults[schedule_id])
        c == IF exists
             THEN crank_vesting_schedule_constraints(schedule, vault,
                                                     recipient_token_account, mint)
             ELSE "AccountNotInitialized"
        r == IF c = "Ok"
             THEN crank_vesting_schedule_handler(schedule, vault, clock)
             ELSE [err |-> c, amount |-> 0, outcome |-> "rejected"]
        call == [op |-> "crank_vesting_schedule", err |-> r.err,
                 arg |-> <<schedule_id, recipient_token_account>>,
                 outcomes |-> <<r.outcome>>,
                 processed |-> IF r.outcome = "processed" THEN 1 ELSE 0]
    IN  IF r.amount = 0
        THEN /\ res' = call
             /\ UNCHANGED <<clock, program_config, schedules, vaults, balances, proposed_at, probe>>
        ELSE /\ schedules' = [schedules EXCEPT ![schedule_id] =
                  Some([schedule EXCEPT !.amount_transferred = @ + r.amount])]
             /\ vaults' = [vaults EXCEPT ![schedule_id] =
                  Some([vault EXCEPT !.amount = @ - r.amount])]
             /\ balances' = [balances EXCEPT ![recipient_token_account] = @ + r.amount]
             /\ res' = call
             /\ UNCHANGED <<clock, program_config, proposed_at, probe>>

(***************************************************************************)
(* close_vesting_schedule                                                  *)
(***************************************************************************)
\* A faulty variant: the schedule need not be fully transferred.
close_vesting_schedule_constraints_any_time(schedule, vault) ==
    IF ~(vault.amount = 0) THEN "VaultNotEmpty"
    ELSE IF ~(vault.owner = SchedulePda(schedule.schedule_id)) THEN "VaultAuthorityMismatch"
    ELSE "Ok"

close_vesting_schedule_constraints(schedule, vault) ==
    IF ~(schedule.amount_transferred >= schedule.total_amount)
    THEN "ScheduleNotFullyVested"
    ELSE IF ~(vault.amount = 0) THEN "VaultNotEmpty"
    ELSE IF ~(vault.owner = SchedulePda(schedule.schedule_id)) THEN "VaultAuthorityMismatch"
    ELSE "Ok"

CloseVestingSchedule(schedule_id) ==
    LET e == IF schedules[schedule_id] = NoAccount \/ vaults[schedule_id] = NoAccount
             THEN "AccountNotInitialized"
             ELSE close_vesting_schedule_constraints(Unwrap(schedules[schedule_id]),
                                                     Unwrap(vaults[schedule_id]))
    IN  IF e # "Ok"
        THEN /\ res' = Call("close_vesting_schedule", e, <<schedule_id>>)
             /\ UNCHANGED <<clock, program_config, schedules, vaults, balances, proposed_at, probe>>
        ELSE /\ schedules' = [schedules EXCEPT ![schedule_id] = NoAccount]
             /\ vaults' = [vaults EXCEPT ![schedule_id] = NoAccount]
             /\ res' = Call("close_vesting_schedule", "Ok", <<schedule_id>>)
             /\ UNCHANGED <<clock, program_config, balances, proposed_at, probe>>

(***************************************************************************)
(* Specifications                                                          *)
(***************************************************************************)
\* The vesting engine; the hub is bootstrapped, its rotation is in SpecHub.
Next ==
    \/ Initialize(Admin)
    \/ \E signer \in Signers : UpdateDistributionHub(signer, Hub1)
    \/ \E signer \in Signers, id \in ScheduleIds, p \in CreateParams :
          CreateVestingSchedule(signer, id, p, "depositor", "rcp", Mint1)
    \/ \E c \in CrankInputs : CrankVestingSchedules(c)
    \/ \E id \in ScheduleIds, rta \in {"rcp", "mal"} : CrankVestingSchedule(id, rta, Mint1)
    \/ \E id \in ScheduleIds : CloseVestingSchedule(id)
    \/ Tick(MaxTime)

Spec == Init /\ [][Next]_vars

HubInputs == {DefaultPubkey, Hub1, Hub2}

NextHub ==
    \/ \E signer \in Signers : Initialize(signer)
    \/ \E signer \in Signers, h \in HubInputs : UpdateDistributionHub(signer, h)
    \/ Tick(MaxHubTime)

SpecHub == Init /\ [][NextHub]_vars

(***************************************************************************)
(* The unlock function on its own: a schedule drawn at the start, evaluated *)
(* at two timestamps.                                                      *)
(***************************************************************************)
ProbeTimestamps == {I64_MIN, -1, 0, 1, 2, 3, 5, 100, 150, 200, I64_MAX}
ProbeAmounts == {1, 5, 1000, U64_MAX}
\* Values of amount_transferred the drawn schedule may carry.
ProbeTransferred == {0, 1, 500}

\* The initialized schedules with cliff <= start < end, as create_vesting_schedule
\* accepts them.
ProbeSchedules ==
    { VestingSchedule_init(0, Recipient, "rcp", Mint1, VaultPda(0), Admin, a, t[1], t[2], t[3]) :
        a \in ProbeAmounts,
        t \in { x \in ProbeTimestamps \X ProbeTimestamps \X ProbeTimestamps :
                  x[1] <= x[2] /\ x[2] < x[3] } }

InitUnlock ==
    /\ InitAccounts
    /\ probe \in { [done |-> FALSE, s |-> [sch EXCEPT !.amount_transferred = r]] :
                    sch \in ProbeSchedules, r \in ProbeTransferred }
    /\ probe.s.amount_transferred <= probe.s.total_amount

Evaluate(t1, t2) ==
    /\ ~probe.done
    /\ t1 <= t2
    /\ probe' = [done |-> TRUE, s |-> probe.s, t1 |-> t1, t2 |-> t2,
                 u1 |-> calculate_unlocked_amount(probe.s, t1),
                 u2 |-> calculate_unlocked_amount(probe.s, t2),
                 transferable1 |-> get_transferable_amount(probe.s, t1),
                 transferable2 |-> get_transferable_amount(probe.s, t2)]
    /\ UNCHANGED <<clock, program_config, schedules, vaults, balances, proposed_at, res>>

NextUnlock == \E t1 \in ProbeTimestamps, t2 \in ProbeTimestamps : Evaluate(t1, t2)

SpecUnlock == InitUnlock /\ [][NextUnlock]_vars

(***************************************************************************)
(* Properties                                                              *)
(***************************************************************************)
\* The schedules that exist.
ExistingSchedules == { Unwrap(schedules[id]) : id \in { i \in ScheduleIds : schedules[i] # NoAccount } }

\* The last call was a crank (of either kind) that moved tokens.
CrankMovedTokens ==
    /\ res.op \in {"crank_vesting_schedules", "crank_vesting_schedule"}
    /\ res.err = "Ok"
    /\ res.processed >= 1

\* The unlock curve as a mathematical function of time, on unbounded integers:
\* nothing before the cliff, everything from the end on, nothing before the
\* start or on an empty interval, and the floor of the linear interpolation in
\* between.
UnlockCurve(s, t) ==
    IF t < s.cliff_timestamp THEN 0
    ELSE IF t >= s.vesting_end_timestamp THEN s.total_amount
    ELSE IF s.vesting_start_timestamp >= s.vesting_end_timestamp
            \/ t < s.vesting_start_timestamp THEN 0
    ELSE Min(s.total_amount,
             (s.total_amount * (t - s.vesting_start_timestamp))
                 \div (s.vesting_end_timestamp - s.vesting_start_timestamp))

\* C1: in every state reachable by creations, batch and single-schedule cranks,
\* hub updates, closes and clock advances, every schedule has
\* amount_transferred <= total_amount.
C1_TransferredWithinTotal ==
    \A s \in ExistingSchedules : s.amount_transferred <= s.total_amount

\* A schedule that cranks have released in full.
C1_Witness ==
    /\ CrankMovedTokens
    /\ \E s \in ExistingSchedules :
          s.total_amount > 0 /\ s.amount_transferred = s.total_amount

\* C2: a crank never releases ahead of the unlock curve: in every reachable state
\* every schedule has amount_transferred <= UnlockCurve(schedule, clock), and
\* amount_transferred = 0 while the clock is before the cliff.
C2_NeverAheadOfCurve ==
    \A s \in ExistingSchedules :
        /\ s.amount_transferred <= UnlockCurve(s, clock)
        /\ clock < s.cliff_timestamp => s.amount_transferred = 0

\* A schedule released exactly up to the curve, part of the way through vesting.
C2_Witness ==
    /\ CrankMovedTokens
    /\ \E s \in ExistingSchedules :
          /\ 0 < s.amount_transferred
          /\ s.amount_transferred = UnlockCurve(s, clock)
          /\ s.amount_transferred < s.total_amount

\* The step is a call of update_distribution_hub, signed by the admin, with
\* input P.
AdminHubCall(P) ==
    /\ program_config # NoAccount
    /\ clock' = clock
    /\ res'.op = "update_distribution_hub"
    /\ res'.arg = <<Unwrap(program_config).admin, P>>

\* The call with input P while P is pending with deadline D.
ConfirmStep(P) ==
    LET before == Unwrap(program_config)
        after == Unwrap(program_config')
    IN  (AdminHubCall(P) /\ before.pending_hub = Some(P)
                         /\ before.hub_update_timelock # None)
        => IF clock < Unwrap(before.hub_update_timelock)
           THEN /\ res'.err = "TimelockNotExpired"
                /\ program_config' = program_config
           ELSE /\ res'.err = "Ok"
                /\ after.distribution_hub = P
                /\ after.pending_hub = None
                /\ after.hub_update_timelock = None

\* The call with input P while P is the active hub and no longer pending.
CallAfterConfirmStep(P) ==
    (AdminHubCall(P) /\ Unwrap(program_config).distribution_hub = P
                     /\ Unwrap(program_config).pending_hub # Some(P))
    => /\ res'.err # "Ok"
       /\ program_config' = program_config

\* C3: with P pending and deadline D, the admin's call with input P is rejected
\* with TimelockNotExpired and changes nothing while clock < D; at clock >= D
\* (D itself included) it succeeds, makes P the distribution hub and clears
\* pending_hub and hub_update_timelock; a further call with input P then fails
\* and confirms nothing.
C3_ConfirmOnlyFromDeadline ==
    [][\A P \in HubInputs : ConfirmStep(P) /\ CallAfterConfirmStep(P)]_vars

\* A confirmation made at the deadline itself: the proposal cannot be older than
\* clock 0, so a confirmation at clock = HUB_UPDATE_TIMELOCK is at its deadline.
C3_Witness ==
    /\ res.op = "update_distribution_hub"
    /\ res.outcomes = <<"updated">>
    /\ clock = HUB_UPDATE_TIMELOCK
    /\ Unwrap(program_config).distribution_hub = res.arg[2]
    /\ Unwrap(program_config).pending_hub = None

\* C4: whenever the distribution hub changes from a set address to another
\* address B, B was the pending hub, assigned at least HUB_UPDATE_TIMELOCK
\* before and not reassigned since.
C4_ChangeOnlyAfterDelay ==
    [][(/\ program_config # NoAccount
        /\ program_config' # NoAccount
        /\ Unwrap(program_config).distribution_hub # DefaultPubkey
        /\ Unwrap(program_config').distribution_hub
              # Unwrap(program_config).distribution_hub)
       => /\ Unwrap(program_config).pending_hub
               = Some(Unwrap(program_config').distribution_hub)
          /\ proposed_at # None
          /\ clock - Unwrap(proposed_at) >= HUB_UPDATE_TIMELOCK]_vars

\* A set hub replaced by Hub2, later than the earliest possible deadline.
C4_Witness ==
    /\ res.op = "update_distribution_hub"
    /\ res.outcomes = <<"updated">>
    /\ clock > HUB_UPDATE_TIMELOCK
    /\ Unwrap(program_config).distribution_hub = Hub2

(***************************************************************************)
(* Properties of the batch crank                                           *)
(***************************************************************************)
Has(seq, x) == \E k \in DOMAIN seq : seq[k] = x

\* The step is a call of the batch crank.
CrankStep == clock' = clock /\ res'.op = "crank_vesting_schedules"

\* The k-th pair of a list of remaining accounts.
PairAt(remaining, k) == <<remaining[2 * k - 1], remaining[2 * k]>>
PairCount(remaining) == Len(remaining) \div 2

\* The batch crank with input c on the accounts of the current state.
CurrentCall(c) == crank_call(program_config, schedules, vaults, balances, clock, c)

\* The ledgers of two calls agree.
SameLedger(r1, r2) ==
    r1.schedules = r2.schedules /\ r1.vaults = r2.vaults /\ r1.balances = r2.balances

\* The call left the accounts of the current state as they were.
NothingCommitted(r) ==
    r.schedules = schedules /\ r.vaults = vaults /\ r.balances = balances

\* C5: in one call of the batch crank, a pair that fails (a mismatch of vault
\* authority, vault address or mint, or an arithmetic overflow) fails the whole
\* call: the call returns the error, the failing pair is the last one attempted,
\* and no schedule, vault or balance is changed, so the pairs processed earlier
\* in the call are rolled back with it.
C5_FailingPairFailsTheCall ==
    [][(CrankStep /\ Has(res'.outcomes, "rejected"))
       => /\ res'.err # "Ok"
          /\ \A k \in DOMAIN res'.outcomes :
                res'.outcomes[k] = "rejected" <=> k = Len(res'.outcomes)
          /\ schedules' = schedules
          /\ vaults' = vaults
          /\ balances' = balances]_vars

\* A call whose first pair was processed and whose second pair failed on the
\* vault authority: the processed schedule still has nothing transferred.
C5_Witness ==
    /\ res.op = "crank_vesting_schedules"
    /\ res.err = "VaultAuthorityMismatch"
    /\ res.outcomes = <<"processed", "rejected">>
    /\ \A s \in ExistingSchedules : s.amount_transferred = 0
    /\ \E s \in ExistingSchedules : UnlockCurve(s, clock) > 0

\* C5 as the specification states it: a failing pair is rejected alone, the call
\* succeeds and what earlier pairs of the call transferred stays transferred.
C5_AsSpecified ==
    [][(CrankStep /\ Has(res'.outcomes, "rejected") /\ Has(res'.outcomes, "processed"))
       => /\ res'.err = "Ok"
          /\ \E id \in ScheduleIds :
                /\ schedules[id] # NoAccount
                /\ schedules'[id] # NoAccount
                /\ Unwrap(schedules'[id]).amount_transferred
                     > Unwrap(schedules[id]).amount_transferred]_vars

\* The first pair of the list whose schedule account is the uninitialized
\* record; 0 when there is none.
FirstUninitialized(remaining) ==
    IF \E k \in 1 .. PairCount(remaining) : PairAt(remaining, k)[1] = FakeSchedule
    THEN CHOOSE k \in 1 .. PairCount(remaining) :
            /\ PairAt(remaining, k)[1] = FakeSchedule
            /\ \A j \in 1 .. (k - 1) : PairAt(remaining, j)[1] # FakeSchedule
    ELSE 0

\* The inputs whose call, on the current state, gets as far as a pair with an
\* uninitialized schedule record.
ReachesUninitialized ==
    { c \in { i \in CrankInputs : FirstUninitialized(i.remaining) > 0 } :
        Len(CurrentCall(c).outcomes) >= FirstUninitialized(c.remaining) }

\* C6: a pair whose schedule record is not initialized fails the call with
\* InvalidVestingScheduleData: no later pair is attempted and nothing is
\* committed.
C6_UninitializedFailsTheCall ==
    \A c \in ReachesUninitialized :
        LET r == CurrentCall(c)
        IN  /\ r.err = "InvalidVestingScheduleData"
            /\ Len(r.outcomes) = FirstUninitialized(c.remaining)
            /\ r.outcomes[Len(r.outcomes)] = "rejected"
            /\ NothingCommitted(r)

\* A call that ended on the uninitialized record, after processing a pair.
C6_Witness ==
    /\ res.op = "crank_vesting_schedules"
    /\ res.err = "InvalidVestingScheduleData"
    /\ res.outcomes = <<"processed", "rejected">>

\* C6 as the specification states it: the uninitialized pair is skipped and the
\* call succeeds.
C6_AsSpecified ==
    \A c \in ReachesUninitialized : CurrentCall(c).err = "Ok"

\* The list with every repeated pair dropped, the first occurrence kept.
RECURSIVE WithoutRepeats(_, _)
WithoutRepeats(remaining, k) ==
    IF k > PairCount(remaining) THEN <<>>
    ELSE IF \E j \in 1 .. (k - 1) : PairAt(remaining, j) = PairAt(remaining, k)
    THEN WithoutRepeats(remaining, k + 1)
    ELSE PairAt(remaining, k) \o WithoutRepeats(remaining, k + 1)

ListedOnce(c) == [c EXCEPT !.remaining = WithoutRepeats(c.remaining, 1)]

\* The inputs that list some pair more than once.
InputsWithRepeats == { c \in CrankInputs : ListedOnce(c) # c }

\* The number of pairs the call counted as processed, by its log.
ProcessedInLog(r) == Cardinality({ k \in DOMAIN r.outcomes : r.outcomes[k] = "processed" })

\* C7: a call that lists a pair more than once leaves every schedule's
\* amount_transferred, every vault and every balance as the call with the pair
\* listed once does, and counts as many pairs processed.
C7_RepeatedPairCountsOnce ==
    \A c \in InputsWithRepeats :
        LET repeated == CurrentCall(c)
            once == CurrentCall(ListedOnce(c))
        IN  /\ repeated.err = once.err
            /\ SameLedger(repeated, once)
            /\ repeated.processed = once.processed
            /\ ProcessedInLog(repeated) = ProcessedInLog(once)

\* A call that processed a pair and then skipped its repetition, part of the way
\* through vesting.
C7_Witness ==
    /\ res.op = "crank_vesting_schedules"
    /\ res.err = "Ok"
    /\ res.outcomes = <<"processed", "no_transferable">>
    /\ res.processed = 1
    /\ \E s \in ExistingSchedules :
          0 < s.amount_transferred /\ s.amount_transferred < s.total_amount

\* The outcomes by which the loop passes over a pair with nothing to transfer.
NothingToTransfer == {"fully_processed", "no_transferable", "vault_empty"}

\* The positions (j, k), j < k, at which the list names the same pair and the
\* successful call r attempted both.
RepeatedPositions(c, r) ==
    { p \in (1 .. PairCount(c.remaining)) \X (1 .. PairCount(c.remaining)) :
        /\ p[1] < p[2]
        /\ PairAt(c.remaining, p[1]) = PairAt(c.remaining, p[2])
        /\ r.err = "Ok"
        /\ p[2] <= Len(r.outcomes) }

\* C8: a repeated reference to a schedule settled earlier in the same call is
\* passed over by the checks on the amount (fully processed, nothing
\* transferable, or an empty vault), never by the re-read of
\* amount_transferred, and adds nothing to the processed count.
C8_RepeatSkippedByAmountChecks ==
    \A c \in CrankInputs :
        LET r == CurrentCall(c)
        IN  /\ ~Has(r.outcomes, "concurrent_modification")
            /\ \A p \in RepeatedPositions(c, r) : r.outcomes[p[2]] \in NothingToTransfer

\* A call that released a schedule in full and passed over its repetition as
\* fully processed.
C8_Witness ==
    /\ res.op = "crank_vesting_schedules"
    /\ res.err = "Ok"
    /\ res.outcomes = <<"processed", "fully_processed">>
    /\ res.processed = 1

\* C8 as the specification states it: the repetition of a pair the call has
\* processed is passed over by the re-read guard.
C8_AsSpecified ==
    \A c \in InputsWithRepeats :
        LET r == CurrentCall(c)
        IN  \A p \in RepeatedPositions(c, r) :
                r.outcomes[p[1]] = "processed"
                => r.outcomes[p[2]] = "concurrent_modification"

\* The call with input c made again on the ledger the call r left, at the same
\* time.
CallAgain(r, c) == crank_call(program_config, r.schedules, r.vaults, r.balances, clock, c)

\* The number of pairs a call processed for good: a call that returns an error
\* commits none.
ProcessedForGood(r) == IF r.err = "Ok" THEN r.processed ELSE 0

\* C9: at a fixed time, a second call of the batch crank with the same list
\* processes no pair and leaves every amount_transferred and every balance as
\* the first call left them.
C9_SecondCallIsNoOp ==
    [](\A c \in CrankInputs :
           LET first == CurrentCall(c)
               second == CallAgain(first, c)
           IN  /\ ProcessedForGood(second) = 0
               /\ second.err = "Ok" => ~Has(second.outcomes, "processed")
               /\ SameLedger(second, first))

\* A successful call of two pairs that found nothing to transfer, on schedules
\* that earlier calls have partly released.
C9_Witness ==
    /\ res.op = "crank_vesting_schedules"
    /\ res.err = "Ok"
    /\ res.processed = 0
    /\ res.outcomes = <<"no_transferable", "no_transferable">>
    /\ \A id \in ScheduleIds : schedules[id] # NoAccount
    /\ \A s \in ExistingSchedules :
          0 < s.amount_transferred /\ s.amount_transferred < s.total_amount

(***************************************************************************)
(* Properties of the unlock function                                       *)
(***************************************************************************)
\* The timestamps at which the linear branch cannot compute in i64: the time
\* elapsed since the start, or the duration, is above i64::MAX.
LinearBranchOverflows(s, t) ==
    /\ s.cliff_timestamp <= t
    /\ s.vesting_start_timestamp <= t
    /\ t < s.vesting_end_timestamp
    /\ \/ t - s.vesting_start_timestamp > I64_MAX
       \/ s.vesting_end_timestamp - s.vesting_start_timestamp > I64_MAX

\* The result u of the unlock function at t is an amount within [0, total].
AmountWithinTotal(s, u) == u.ok /\ 0 <= u.val /\ u.val <= s.total_amount

\* C10: for an initialized schedule with cliff <= start < end, the unlock
\* function returns MathOverflow exactly at the timestamps of the linear branch
\* whose elapsed time or duration exceeds i64::MAX, and an amount within
\* [0, total_amount] at every other timestamp; over t1 <= t2 the amounts it
\* returns do not decrease.
C10_MonotoneBoundedUnlessOverflow ==
    probe.done =>
        /\ LinearBranchOverflows(probe.s, probe.t1)
             => ~probe.u1.ok /\ probe.u1.err = "MathOverflow"
        /\ LinearBranchOverflows(probe.s, probe.t2)
             => ~probe.u2.ok /\ probe.u2.err = "MathOverflow"
        /\ ~LinearBranchOverflows(probe.s, probe.t1) => AmountWithinTotal(probe.s, probe.u1)
        /\ ~LinearBranchOverflows(probe.s, probe.t2) => AmountWithinTotal(probe.s, probe.u2)
        /\ (probe.u1.ok /\ probe.u2.ok) => probe.u1.val <= probe.u2.val

\* Two evaluations on the linear segment, the later one strictly larger.
C10_Witness ==
    /\ probe.done
    /\ probe.t1 < probe.t2
    /\ probe.u1.ok
    /\ probe.u2.ok
    /\ 0 < probe.u1.val
    /\ probe.u1.val < probe.u2.val
    /\ probe.u2.val < probe.s.total_amount

\* C10 as the specification states it: an amount within [0, total_amount] at
\* every timestamp, not decreasing in time.
C10_AsSpecified ==
    probe.done =>
        /\ AmountWithinTotal(probe.s, probe.u1)
        /\ AmountWithinTotal(probe.s, probe.u2)
        /\ probe.u1.val <= probe.u2.val

\* The timestamps of an evaluation with the results at them.
ProbeResults ==
    { <<probe.t1, probe.u1, probe.transferable1>>,
      <<probe.t2, probe.u2, probe.transferable2>> }

\* C11: for a schedule with cliff <= start < end, the unlock function returns 0
\* at every timestamp before the cliff (cliff - 1 included) and total_amount at
\* every timestamp from the end on (the end itself included).
C11_ZeroBeforeCliffAllFromEnd ==
    probe.done =>
        \A r \in ProbeResults :
            /\ r[1] < probe.s.cliff_timestamp => r[2] = Ok(0)
            /\ r[1] >= probe.s.vesting_end_timestamp => r[2] = Ok(probe.s.total_amount)

\* An evaluation one unit before the cliff and at the end exactly.
C11_Witness ==
    /\ probe.done
    /\ probe.t1 = probe.s.cliff_timestamp - 1
    /\ probe.t2 = probe.s.vesting_end_timestamp
    /\ probe.u1 = Ok(0)
    /\ probe.u2 = Ok(probe.s.total_amount)
    /\ probe.s.total_amount > 1

\* The floor of the linear interpolation, on unbounded integers.
LinearInterpolation(s, t) ==
    (s.total_amount * (t - s.vesting_start_timestamp))
        \div (s.vesting_end_timestamp - s.vesting_start_timestamp)

\* t is on the linear segment of the schedule.
OnLinearSegment(s, t) ==
    /\ s.cliff_timestamp <= t
    /\ s.vesting_start_timestamp <= t
    /\ t < s.vesting_end_timestamp

Max(a, b) == IF a >= b THEN a ELSE b

\* The schedule of scenario A (total 1000, cliff 100, start 100, end 200) with
\* nothing transferred.
IsScenarioA(s) ==
    /\ s.total_amount = 1000
    /\ s.cliff_timestamp = 100
    /\ s.vesting_start_timestamp = 100
    /\ s.vesting_end_timestamp = 200
    /\ s.amount_transferred = 0

\* What the linear segment yields at t when its arithmetic fits i64: r = <<t,
\* unlocked, transferable>>.
LinearResultAsFormula(s, r) ==
    /\ r[2] = Ok(LinearInterpolation(s, r[1]))
    /\ r[3] = Ok(Max(0, LinearInterpolation(s, r[1]) - s.amount_transferred))
    /\ r[1] = s.vesting_start_timestamp => r[2].val = 0
    /\ 2 * r[1] = s.vesting_start_timestamp + s.vesting_end_timestamp
         => /\ 2 * r[2].val - s.total_amount <= 2
            /\ s.total_amount - 2 * r[2].val <= 2

ScenarioAResults(s, r) ==
    IsScenarioA(s) =>
        /\ r[1] = 100 => r[3] = Ok(0)
        /\ r[1] = 150 => r[3] = Ok(500)
        /\ r[1] = 200 => r[3] = Ok(1000)

\* C12: on the linear segment (cliff <= now, start <= now < end), when neither
\* now - start nor end - start exceeds i64::MAX, unlocked is
\* floor(total_amount * (now - start) / (end - start)) and transferable is
\* max(0, unlocked - amount_transferred), so unlocked is 0 at the start and
\* within 1 of total_amount / 2 at the midpoint; when one of the differences
\* exceeds i64::MAX both fail with MathOverflow.  The schedule of scenario A has
\* transferable 0 at 100, 500 at 150 and 1000 at 200.
C12_LinearFormulaUnlessOverflow ==
    probe.done =>
        \A r \in ProbeResults :
            /\ OnLinearSegment(probe.s, r[1]) =>
                  IF LinearBranchOverflows(probe.s, r[1])
                  THEN r[2] = Err("MathOverflow") /\ r[3] = Err("MathOverflow")
                  ELSE LinearResultAsFormula(probe.s, r)
            /\ ScenarioAResults(probe.s, r)

\* Scenario A evaluated at its midpoint and at its end.
C12_Witness ==
    /\ probe.done
    /\ IsScenarioA(probe.s)
    /\ probe.t1 = 150
    /\ probe.t2 = 200
    /\ probe.u1 = Ok(500)
    /\ probe.transferable1 = Ok(500)
    /\ probe.transferable2 = Ok(1000)

\* C12 as the specification states it: the formula at every timestamp of the
\* linear segment.
C12_AsSpecified ==
    probe.done =>
        \A r \in ProbeResults :
            /\ OnLinearSegment(probe.s, r[1]) => LinearResultAsFormula(probe.s, r)
            /\ ScenarioAResults(probe.s, r)

(***************************************************************************)
(* Schedule ids                                                            *)
(***************************************************************************)
\* A step of create_vesting_schedule called with schedule_id = id.
CreateStep(id) ==
    /\ res'.op = "create_vesting_schedule"
    /\ res'.arg[2] = id
    /\ clock' = clock
    /\ res' # res \/ schedules' # schedules

\* Parameters that pass every check of the handler but the one on the id.
ValidCreateParams ==
    { p \in CreateParams : /\ p.total_amount > 0
                           /\ p.cliff_timestamp <= p.vesting_start_timestamp
                           /\ p.vesting_start_timestamp < p.vesting_end_timestamp }

\* The error of an otherwise valid creation by the admin with this id.
AdminCreateError(id, p) ==
    create_vesting_schedule_error(Unwrap(program_config).admin, id, p, "depositor", "rcp", Mint1)

IdAccountsExist(id) == schedules[id] # NoAccount \/ vaults[id] # NoAccount

SuccessfulCreate ==
    /\ res' # res
    /\ res'.op = "create_vesting_schedule"
    /\ res'.err = "Ok"

\* C14: total_schedules is 0 when the configuration is created, grows by
\* exactly 1 in every successful create_vesting_schedule and is left unchanged
\* by every other step (failed creations, cranks, hub updates, closes); the
\* configuration is never removed, so the counter never decreases.
C14_CounterCountsCreations ==
    [][ /\ program_config # NoAccount => program_config' # NoAccount
        /\ (program_config = NoAccount /\ program_config' # NoAccount)
              => Unwrap(program_config').total_schedules = 0
        /\ (program_config # NoAccount /\ program_config' # NoAccount)
              => Unwrap(program_config').total_schedules =
                    IF SuccessfulCreate
                    THEN Unwrap(program_config).total_schedules + 1
                    ELSE Unwrap(program_config).total_schedules ]_vars

\* Two schedules were created, one of them was closed, the counter stands at 2.
C14_Witness ==
    /\ program_config # NoAccount
    /\ Unwrap(program_config).total_schedules = 2
    /\ res.op = "close_vesting_schedule"
    /\ res.err = "Ok"
    /\ \E id \in ScheduleIds : schedules[id] = NoAccount

(***************************************************************************)
(* The pending hub and its deadline                                        *)
(***************************************************************************)
\* C15: in every state of the configuration, after initialize and after any
\* accepted or rejected update_distribution_hub, pending_hub and
\* hub_update_timelock are both set or both unset.
C15_PendingAndDeadlineTogether ==
    program_config # NoAccount =>
       (Unwrap(program_config).pending_hub = None
          <=> Unwrap(program_config).hub_update_timelock = None)

\* A pending update has just been confirmed: both fields were set, both are
\* cleared.
C15_Witness ==
    /\ program_config # NoAccount
    /\ res.op = "update_distribution_hub"
    /\ res.outcomes = <<"updated">>
    /\ Unwrap(program_config).pending_hub = None
    /\ Unwrap(program_config).hub_update_timelock = None

(***************************************************************************)
(* The hub, once set                                                       *)
(***************************************************************************)
\* C16: once distribution_hub holds an address other than Pubkey::default(),
\* no step sets it back to Pubkey::default().
C16_NeverBackToUnset ==
    [][ (program_config # NoAccount
           /\ Unwrap(program_config).distribution_hub # DefaultPubkey)
        => Unwrap(program_config').distribution_hub # DefaultPubkey ]_vars

(***************************************************************************)
(* Calls by another identity than the admin                                *)
(***************************************************************************)
AdminOnlyOps == {"create_vesting_schedule", "update_distribution_hub"}

\* A step that is a call of an admin-only instruction signed by `signer`.
AdminOnlyCallBy(signer) ==
    /\ res' # res
    /\ res'.op \in AdminOnlyOps
    /\ res'.arg[1] = signer

\* The error that meets a signer who is not the admin.
NotAdminError(r) ==
    IF r.op = "create_vesting_schedule" /\ IdAccountsExist(r.arg[2])
    THEN "AccountAlreadyInUse"
    ELSE "Unauthorized"

\* C17: create_vesting_schedule and update_distribution_hub signed by another
\* identity than the configured admin are rejected and leave the
\* configuration, the schedules, the vaults and the balances unchanged; the
\* error is Unauthorized, except for a creation whose schedule_id is the id of
\* an existing schedule, which fails before with the account-in-use error.
C17_OnlyAdmin ==
    [][ program_config # NoAccount =>
        \A signer \in Signers \ {Unwrap(program_config).admin} :
           AdminOnlyCallBy(signer)
              => /\ res'.err = NotAdminError(res')
                 /\ UNCHANGED <<program_config, schedules, vaults, balances, proposed_at>> ]_vars

\* Another identity asked for the next schedule while one exists, and was
\* refused.
C17_Witness ==
    /\ program_config # NoAccount
    /\ res.op = "create_vesting_schedule"
    /\ res.arg[1] # Unwrap(program_config).admin
    /\ res.arg[2] = Unwrap(program_config).total_schedules
    /\ res.err = "Unauthorized"
    /\ \E id \in ScheduleIds : schedules[id] # NoAccount

\* C17 as the specification states it: the error is Unauthorized in every case.
C17_AsSpecified ==
    [][ program_config # NoAccount =>
        \A signer \in Signers \ {Unwrap(program_config).admin} :
           AdminOnlyCallBy(signer)
              => /\ res'.err = "Unauthorized"
                 /\ UNCHANGED <<program_config, schedules, vaults, balances, proposed_at>> ]_vars

(***************************************************************************)
(* initialize                                                              *)
(***************************************************************************)
\* A step that is a call of initialize.
InitializeStep == res' # res /\ res'.op = "initialize"

\* C18: initialize succeeds exactly when no configuration exists, and then
\* stores its signer as admin; on an existing configuration it is rejected,
\* whoever signs; the configuration is never removed and its admin never
\* changes.
C18_InitializeOnce ==
    [][ /\ program_config # NoAccount
           => /\ program_config' # NoAccount
              /\ Unwrap(program_config').admin = Unwrap(program_config).admin
        /\ InitializeStep
           => IF program_config = NoAccount
              THEN /\ res'.err = "Ok"
                   /\ program_config' # NoAccount
                   /\ Unwrap(program_config').admin = res'.arg[1]
              ELSE /\ res'.err = "AccountAlreadyInUse"
                   /\ program_config' = program_config ]_vars

\* Another identity tried to initialize the configured program, after the
\* admin had set and rotated the hub.
C18_Witness ==
    /\ program_config # NoAccount
    /\ res.op = "initialize"
    /\ res.err = "AccountAlreadyInUse"
    /\ res.arg[1] # Unwrap(program_config).admin
    /\ Unwrap(program_config).pending_hub # None

(***************************************************************************)
(* Well-formed schedules                                                   *)
(***************************************************************************)
WellFormed(s) ==
    /\ s.total_amount > 0
    /\ s.cliff_timestamp <= s.vesting_start_timestamp
    /\ s.vesting_start_timestamp < s.vesting_end_timestamp

\* A step that is a creation refused for its amount or its timestamps.
RefusedForParams ==
    /\ res' # res
    /\ res'.op = "create_vesting_schedule"
    /\ res'.err \in {"InvalidAmount", "InvalidTimestamps"}

\* C19: every schedule that exists has total_amount > 0 and
\* cliff_timestamp <= vesting_start_timestamp < vesting_end_timestamp.  No
\* creation with total_amount = 0, cliff > start or start >= end succeeds,
\* whoever signs it and whatever its id; signed by the admin for an id without
\* accounts it fails with InvalidAmount when total_amount = 0 and with
\* InvalidTimestamps otherwise; and a creation refused with one of these two
\* errors creates no schedule and leaves total_schedules as it was.
C19_SchedulesWellFormed ==
    /\ [](\A id \in ScheduleIds :
             schedules[id] # NoAccount => WellFormed(Unwrap(schedules[id])))
    /\ [](program_config # NoAccount
          => \A signer \in Signers, id \in ScheduleIds, p \in CreateParams \ ValidCreateParams :
                LET e == create_vesting_schedule_error(signer, id, p, "depositor", "rcp", Mint1)
                IN  /\ e # "Ok"
                    /\ (signer = Unwrap(program_config).admin /\ ~IdAccountsExist(id))
                          => e = IF p.total_amount = 0 THEN "InvalidAmount"
                                 ELSE "InvalidTimestamps")
    /\ [][RefusedForParams
          => UNCHANGED <<program_config, schedules, vaults, balances>>]_vars

\* A creation was refused for its timestamps while a schedule exists.
C19_Witness ==
    /\ res.op = "create_vesting_schedule"
    /\ res.err = "InvalidTimestamps"
    /\ \E id \in ScheduleIds : schedules[id] # NoAccount

(***************************************************************************)
(* The errors of the five preconditions of a creation                      *)
(***************************************************************************)
\* The next id is free and the depositor can fund a schedule of `p`.
CanCreate(p) ==
    /\ program_config # NoAccount
    /\ Unwrap(program_config).total_schedules \in ScheduleIds
    /\ ~IdAccountsExist(Unwrap(program_config).total_schedules)
    /\ p \in ValidCreateParams
    /\ balances["depositor"] >= p.total_amount

\* The errors of the calls that differ from a valid creation of `p` in one
\* precondition only: the signer, the amount, the timestamps, the id (`id`),
\* the funding (`big` in place of the amount).
SoleViolationErrors(Error(_, _, _), p, ts, id, big) ==
    LET admin == Unwrap(program_config).admin
        next  == Unwrap(program_config).total_schedules
    IN  << Error(Other, next, p),
           Error(admin, next, [p EXCEPT !.total_amount = 0]),
           Error(admin, next, [p EXCEPT !.cliff_timestamp = ts[1],
                                        !.vesting_start_timestamp = ts[2],
                                        !.vesting_end_timestamp = ts[3]]),
           Error(admin, id, p),
           Error(admin, next, [p EXCEPT !.total_amount = big]) >>

PairwiseDistinct(t) ==
    /\ \A i \in DOMAIN t : t[i] # "Ok"
    /\ \A i, j \in DOMAIN t : i # j => t[i] # t[j]

InstructionsError(signer, id, p) ==
    instructions_create_vesting_schedule_error(signer, id, p, "depositor", Mint1)

\* C20: when exactly one of the five preconditions of a creation is violated
\* (the signer is the admin; total_amount > 0; the order of the timestamps;
\* schedule_id = total_schedules; the depositor's balance covers
\* total_amount), the five errors are pairwise different.
C20_FiveDistinctErrors ==
    \A p \in CreateParams, ts \in CreateTimestamps, id \in ScheduleIds, big \in CreateAmounts :
       ( /\ CanCreate(p)
         /\ Unwrap(program_config).admin # Other
         /\ ~(ts[1] <= ts[2] /\ ts[2] < ts[3])
         /\ id # Unwrap(program_config).total_schedules
         /\ big > balances["depositor"] )
       => PairwiseDistinct(SoleViolationErrors(InstructionsError, p, ts, id, big))

(***************************************************************************)
(* The effect of a creation                                                *)
(***************************************************************************)
\* C21: a successful create_vesting_schedule with parameters p leaves, at its
\* id, an initialized schedule with amount_transferred = 0 and p's recipient,
\* amount and timestamps, a vault whose authority is that schedule and whose
\* balance is p.total_amount, the depositor's balance reduced by
\* p.total_amount, and total_schedules one higher; no other schedule, vault
\* or balance changes.
C21_CreationEffect ==
    [][ SuccessfulCreate =>
        LET signer == res'.arg[1]
            id     == res'.arg[2]
            p      == res'.arg[3]
            s      == Unwrap(schedules'[id])
            v      == Unwrap(vaults'[id])
        IN  /\ schedules[id] = NoAccount /\ vaults[id] = NoAccount
            /\ schedules'[id] # NoAccount /\ vaults'[id] # NoAccount
            /\ s.is_initialized
            /\ s.amount_transferred = 0
            /\ s.schedule_id = id
            /\ s.recipient = p.recipient
            /\ s.total_amount = p.total_amount
            /\ s.cliff_timestamp = p.cliff_timestamp
            /\ s.vesting_start_timestamp = p.vesting_start_timestamp
            /\ s.vesting_end_timestamp = p.vesting_end_timestamp
            /\ s.depositor = signer
            /\ s.token_vault = VaultPda(id)
            /\ s.mint = v.mint
            /\ v.owner = SchedulePda(id)
            /\ v.amount = p.total_amount
            /\ balances' = [balances EXCEPT !["depositor"] = @ - p.total_amount]
            /\ balances'["depositor"] >= 0
            /\ Unwrap(program_config').total_schedules =
                  Unwrap(program_config).total_schedules + 1
            /\ \A other \in ScheduleIds \ {id} :
                  schedules'[other] = schedules[other] /\ vaults'[other] = vaults[other] ]_vars

\* The second schedule has just been created, with the widest timestamps.
C21_Witness ==
    /\ res.op = "create_vesting_schedule"
    /\ res.err = "Ok"
    /\ res.arg[2] = 1
    /\ res.arg[3].cliff_timestamp = I64_MIN
    /\ schedules[1] # NoAccount
    /\ balances["depositor"] = InitialFunding - 10

(***************************************************************************)
(* A creation whose transfer fails                                         *)
(***************************************************************************)
\* A step that is a creation refused by the token transfer.
TransferFailed ==
    /\ res' # res
    /\ res'.op = "create_vesting_schedule"
    /\ res'.err = "InsufficientFunds"

\* C22: a creation that passes every check and asks for more than the
\* depositor holds fails in the token transfer; after a creation that failed
\* in the transfer no schedule and no vault exist at its id, total_schedules
\* is what it was and no balance has moved.
C22_FailedTransferCommitsNothing ==
    [][ /\ \A p \in ValidCreateParams :
              ( /\ program_config # NoAccount
                /\ Unwrap(program_config).total_schedules \in ScheduleIds
                /\ ~IdAccountsExist(Unwrap(program_config).total_schedules)
                /\ p.total_amount > balances["depositor"] )
              => AdminCreateError(Unwrap(program_config).total_schedules, p)
                    = "InsufficientFunds"
        /\ TransferFailed
           => /\ schedules'[res'.arg[2]] = NoAccount
              /\ vaults'[res'.arg[2]] = NoAccount
              /\ UNCHANGED <<program_config, schedules, vaults, balances>> ]_vars

\* A creation failed in the transfer after an earlier one had succeeded.
C22_Witness ==
    /\ res.op = "create_vesting_schedule"
    /\ res.err = "InsufficientFunds"
    /\ res.arg[2] = 1
    /\ schedules[0] # NoAccount
    /\ schedules[1] = NoAccount
    /\ balances["depositor"] = InitialFunding - 5

(***************************************************************************)
(* The batch crank while the hub is unset                                  *)
(***************************************************************************)
HubUnset ==
    /\ program_config # NoAccount
    /\ Unwrap(program_config).distribution_hub = DefaultPubkey

\* Every call of the batch crank the model can form from its accounts.
AnyCrankInputs ==
    { [hub |-> h[1], mint |-> h[2], remaining |-> rem, max_schedules |-> m] :
      h \in HubAccountArgs, rem \in RemainingAccounts, m \in {1, MAX_SCHEDULES_PER_CRANK} }

\* The error of a call made while the hub is unset.
HubUnsetError(c) ==
    IF TokenAccountMint(c.hub) # c.mint THEN "HubAccountMintMismatch"
    ELSE IF TokenAccountOwner(c.hub) # DefaultPubkey THEN "HubAccountOwnerMismatch"
    ELSE "DistributionHubNotSet"

\* C23: while distribution_hub is unset, every batch crank call, whatever its
\* list of pairs, is rejected and moves no token and changes no schedule; the
\* error is DistributionHubNotSet when the hub token account passes the
\* account constraints (its mint is the mint passed and its owner is
\* Pubkey::default()), and the error of the failing constraint otherwise.
C23_UnsetHubRejectsBatch ==
    HubUnset =>
      \A c \in AnyCrankInputs :
         LET r == CurrentCall(c)
         IN  /\ r.err = HubUnsetError(c)
             /\ r.schedules = schedules
             /\ r.vaults = vaults
             /\ r.balances = balances

\* The check of the handler refused a call while a vault had tokens to release.
C23_Witness ==
    /\ HubUnset
    /\ res.op = "crank_vesting_schedules"
    /\ res.err = "DistributionHubNotSet"
    /\ schedules[0] # NoAccount
    /\ clock >= Unwrap(schedules[0]).vesting_end_timestamp

\* C23 as the specification states it: the error is DistributionHubNotSet for
\* every call.
C23_AsSpecified ==
    HubUnset =>
      \A c \in AnyCrankInputs :
         LET r == CurrentCall(c)
         IN  /\ r.err = "DistributionHubNotSet"
             /\ r.schedules = schedules
             /\ r.vaults = vaults
             /\ r.balances = balances

(***************************************************************************)
(* Closing a schedule                                                      *)
(***************************************************************************)
\* A step that is a call of close_vesting_schedule on `id`.
CloseStep(id) ==
    /\ res' # res
    /\ res'.op = "close_vesting_schedule"
    /\ res'.arg[1] = id

\* The schedule of `id` was created and has been closed.
Closed(id) ==
    /\ program_config # NoAccount
    /\ id < Unwrap(program_config).total_schedules
    /\ schedules[id] = NoAccount

\* What the specification lets close answer on schedule s and vault v.
CloseAnswer(s, v) ==
    IF ~(s.amount_transferred >= s.total_amount) THEN "ScheduleNotFullyVested"
    ELSE IF v.amount # 0 THEN "VaultNotEmpty"
    ELSE "Ok"

\* Tokens somebody may have sent to a vault from outside the program.
Deposits == {0, 1}

\* C24: close_vesting_schedule on an existing schedule succeeds exactly when
\* amount_transferred >= total_amount and the vault holds nothing, and then
\* removes the schedule and its vault; otherwise it answers
\* ScheduleNotFullyVested or VaultNotEmpty (also for a vault that received
\* tokens from outside) and schedule and vault stay as they are.  A closed
\* schedule stays closed, and neither crank accepts it any more.
C24_CloseOnlyWhenDone ==
    [][ \A id \in ScheduleIds :
        /\ (CloseStep(id) /\ schedules[id] # NoAccount)
           => LET e == CloseAnswer(Unwrap(schedules[id]), Unwrap(vaults[id]))
              IN  /\ res'.err = e
                  /\ IF e = "Ok"
                     THEN /\ schedules' = [schedules EXCEPT ![id] = NoAccount]
                          /\ vaults' = [vaults EXCEPT ![id] = NoAccount]
                     ELSE schedules' = schedules /\ vaults' = vaults
                  /\ UNCHANGED <<program_config, balances>>
        /\ schedules[id] # NoAccount
           => \A d \in Deposits :
                 LET v == [Unwrap(vaults[id]) EXCEPT !.amount = @ + d]
                 IN  close_vesting_schedule_constraints(Unwrap(schedules[id]), v)
                        = CloseAnswer(Unwrap(schedules[id]), v)
        /\ Closed(id)
           => /\ schedules'[id] = NoAccount
              /\ vaults[id] = NoAccount /\ vaults'[id] = NoAccount
              /\ (res' # res /\ res'.op = "crank_vesting_schedule" /\ res'.arg[1] = id)
                    => res'.err = "AccountNotInitialized"
              /\ \A h \in HubAccountArgs :
                    CurrentCall([hub |-> h[1], mint |-> h[2],
                                 remaining |-> <<SchedulePda(id), VaultPda(id)>>,
                                 max_schedules |-> MAX_SCHEDULES_PER_CRANK]).err # "Ok" ]_vars

\* A closed schedule was presented to the crank and refused.
C24_Witness ==
    /\ res.op = "crank_vesting_schedule"
    /\ res.err = "AccountNotInitialized"
    /\ Closed(res.arg[1])
    /\ \E id \in ScheduleIds : schedules[id] # NoAccount

(***************************************************************************)
(* The fields of a schedule after its creation                             *)
(***************************************************************************)
CrankOps == {"crank_vesting_schedules", "crank_vesting_schedule"}

\* C25: while a schedule exists, a step changes none of its fields but
\* amount_transferred; amount_transferred never decreases and changes only
\* in a successful crank; and a schedule disappears only in a successful
\* close_vesting_schedule of its id.
C25_OnlyAmountTransferredMoves ==
    [][ \A id \in ScheduleIds :
          schedules[id] # NoAccount
          => IF schedules'[id] = NoAccount
             THEN /\ res'.op = "close_vesting_schedule"
                  /\ res'.err = "Ok"
                  /\ res'.arg[1] = id
             ELSE LET s == Unwrap(schedules[id])
                      t == Unwrap(schedules'[id])
                  IN  /\ [t EXCEPT !.amount_transferred = s.amount_transferred] = s
                      /\ t.amount_transferred >= s.amount_transferred
                      /\ t.amount_transferred # s.amount_transferred
                            => /\ res'.op \in CrankOps
                               /\ res'.err = "Ok"
                               /\ clock' = clock ]_vars

\* A schedule is partly transferred, and has stayed so through the close of
\* the other one.
C25_Witness ==
    /\ res.op = "close_vesting_schedule"
    /\ res.err = "Ok"
    /\ \E id \in ScheduleIds :
          /\ schedules[id] # NoAccount
          /\ Unwrap(schedules[id]).amount_transferred > 0
          /\ Unwrap(schedules[id]).amount_transferred < Unwrap(schedules[id]).total_amount

(***************************************************************************)
(* The first hub                                                           *)
(***************************************************************************)
\* C26: while distribution_hub is Pubkey::default(), nothing is pending; the
\* admin's call with an address other than Pubkey::default() makes it the
\* hub in that very call and leaves pending_hub and hub_update_timelock
\* unset; the admin's call with Pubkey::default() is rejected and the
\* configuration stays as it is.
C26_FirstHubWithoutTimelock ==
    [][ (program_config # NoAccount
           /\ Unwrap(program_config).distribution_hub = DefaultPubkey)
        => /\ Unwrap(program_config).pending_hub = None
           /\ Unwrap(program_config).hub_update_timelock = None
           /\ \A P \in HubInputs :
                 AdminHubCall(P)
                 => IF P = DefaultPubkey
                    THEN /\ res'.err = "InvalidAmount"
                         /\ program_config' = program_config
                    ELSE /\ res'.err = "Ok"
                         /\ program_config' =
                               Some([Unwrap(program_config) EXCEPT !.distribution_hub = P]) ]_vars

\* The first hub was set some time after initialize.
C26_Witness ==
    /\ program_config # NoAccount
    /\ res.op = "update_distribution_hub"
    /\ res.outcomes = <<"initialized">>
    /\ clock > 0
    /\ Unwrap(program_config).distribution_hub = res.arg[2]
    /\ Unwrap(program_config).pending_hub = None

(***************************************************************************)
(* Proposals                                                               *)
(***************************************************************************)
HubActive ==
    /\ program_config # NoAccount
    /\ Unwrap(program_config).distribution_hub # DefaultPubkey

\* C27: with a hub set, the admin's call with an address that is neither the
\* hub nor the pending hub succeeds and records the proposal: pending_hub is
\* the address and hub_update_timelock is the clock plus HUB_UPDATE_TIMELOCK,
\* whatever was pending before; distribution_hub, admin and total_schedules
\* stay as they are.
C27_ProposalRecorded ==
    [][ HubActive =>
        \A P \in HubInputs :
           ( /\ AdminHubCall(P)
             /\ P # Unwrap(program_config).distribution_hub
             /\ Unwrap(program_config).pending_hub # Some(P) )
           => /\ res'.err = "Ok"
              /\ program_config' =
                    Some([Unwrap(program_config) EXCEPT
                             !.pending_hub = Some(P),
                             !.hub_update_timelock = Some(clock + HUB_UPDATE_TIMELOCK)])
              /\ proposed_at' = Some(clock) ]_vars

\* A proposal recorded while Hub2 is the hub, with its deadline counted from
\* the clock of the call.
C27_Witness ==
    /\ HubActive
    /\ res.op = "update_distribution_hub"
    /\ res.outcomes = <<"proposed">>
    /\ Unwrap(program_config).pending_hub = Some(DefaultPubkey)
    /\ Unwrap(program_config).distribution_hub = Hub2
    /\ Unwrap(program_config).hub_update_timelock = Some(clock + HUB_UPDATE_TIMELOCK)
    /\ clock > HUB_UPDATE_TIMELOCK

\* C28: the admin's call with the address that is the distribution hub is
\* rejected with HubAddressNotChanged and leaves the configuration as it is;
\* the hub is never the pending hub.
C28_CurrentHubRejected ==
    [][ HubActive =>
        /\ Unwrap(program_config).pending_hub
              # Some(Unwrap(program_config).distribution_hub)
        /\ \A P \in HubInputs :
              (AdminHubCall(P) /\ P = Unwrap(program_config).distribution_hub)
              => /\ res'.err = "HubAddressNotChanged"
                 /\ program_config' = program_config
                 /\ proposed_at' = proposed_at ]_vars

\* The hub was proposed again while another address was pending.
C28_Witness ==
    /\ HubActive
    /\ res.op = "update_distribution_hub"
    /\ res.err = "HubAddressNotChanged"
    /\ res.arg = <<Unwrap(program_config).admin, Unwrap(program_config).distribution_hub>>
    /\ Unwrap(program_config).pending_hub # None

(***************************************************************************)
(* The destination of the single-schedule crank                            *)
(***************************************************************************)
\* A step that is a call of crank_vesting_schedule on `id`.
RecipientCrankStep(id) ==
    /\ res' # res
    /\ res'.op = "crank_vesting_schedule"
    /\ res'.arg[1] = id

\* The data a destination account can carry: the token program lets the owner
\* of an account pass it on, its mint is fixed.
DestinationAccounts ==
    { [key |-> k, mint |-> TokenAccountMint(k), owner |-> o] :
      k \in TokenAccountKeys, o \in {Recipient, Other, Admin} }

\* C29: the single-schedule crank accepts a destination only when its address,
\* its mint and its owner are the recipient_token_account, mint and recipient
\* stored on the schedule, and answers RecipientAccountMismatch,
\* RecipientAccountMintMismatch or RecipientAccountOwnerMismatch otherwise; a
\* rejected call moves nothing, and what a call takes out of the vault is
\* credited to the stored recipient_token_account and to no other account.
C29_OnlyToStoredRecipient ==
    [][ \A id \in ScheduleIds :
        schedules[id] # NoAccount =>
        LET s == Unwrap(schedules[id])
        IN  /\ \A a \in DestinationAccounts :
                  recipient_token_account_constraints(s, a) =
                     IF a.key # s.recipient_token_account THEN "RecipientAccountMismatch"
                     ELSE IF a.mint # s.mint THEN "RecipientAccountMintMismatch"
                     ELSE IF a.owner # s.recipient THEN "RecipientAccountOwnerMismatch"
                     ELSE "Ok"
            /\ RecipientCrankStep(id)
               => /\ (res'.arg[2] # s.recipient_token_account
                        => res'.err = "RecipientAccountMismatch")
                  /\ (res'.err # "Ok"
                        => UNCHANGED <<schedules, vaults, balances>>)
                  /\ vaults'[id] # NoAccount
                  /\ Unwrap(vaults'[id]).amount <= Unwrap(vaults[id]).amount
                  /\ balances' = [balances EXCEPT ![s.recipient_token_account] =
                        @ + Unwrap(vaults[id]).amount - Unwrap(vaults'[id]).amount]
                  /\ \A other \in ScheduleIds \ {id} : vaults'[other] = vaults[other] ]_vars

\* Another destination than the stored one was presented and refused, while
\* the recipient had already received a part.
C29_Witness ==
    /\ res.op = "crank_vesting_schedule"
    /\ res.err = "RecipientAccountMismatch"
    /\ res.arg[2] = "mal"
    /\ balances["rcp"] > 0
    /\ balances["mal"] = 0
    /\ schedules[res.arg[1]] # NoAccount

(***************************************************************************)
(* More pairs than the call may process                                    *)
(***************************************************************************)
\* The list of n times the pair.
Repeat(pair, n) == [i \in 1 .. 2 * n |-> IF i % 2 = 1 THEN pair[1] ELSE pair[2]]

\* Calls that pass the account constraints and carry more pairs than they may
\* process: one pair more than MAX_SCHEDULES_PER_CRANK, and two pairs with
\* max_schedules = 1.
OversizedCalls ==
    { [hub |-> "hubA1", mint |-> Mint1,
       remaining |-> Repeat(p, MAX_SCHEDULES_PER_CRANK + 1),
       max_schedules |-> U8_MAX] : p \in CrankPairs }
    \cup
    { c \in CrankInputs : c.hub = "hubA1" /\ c.mint = Mint1
                          /\ PairCount(c.remaining) > c.max_schedules }

\* C30: a batch crank call with more pairs than the maximum is rejected with
\* TooManyAccountsToProcess, before any pair is processed.
C30_TooManyPairsRejected ==
    (HubActive /\ Unwrap(program_config).distribution_hub = TokenAccountOwner("hubA1"))
    => \A c \in OversizedCalls :
          LET r == CurrentCall(c)
          IN  /\ r.err = "TooManyAccountsToProcess"
              /\ r.outcomes = <<>>

(***************************************************************************)
(* The number of pairs a call attempts                                     *)
(***************************************************************************)
\* Values of max_schedules (a u8) and numbers of pairs in remaining_accounts
\* (its length is a usize).
MaxSchedulesInputs == {0, 1, 2, MAX_SCHEDULES_PER_CRANK, MAX_SCHEDULES_PER_CRANK + 1, U8_MAX}
PairCounts ==
    {0, 1, 2, MAX_SCHEDULES_PER_CRANK, MAX_SCHEDULES_PER_CRANK + 1,
     U8_MAX, U8_MODULUS, U8_MODULUS + MAX_SCHEDULES_PER_CRANK}

\* The call of the hub's account with k times the pair of schedule 0.
RepeatedCall(m, k) ==
    [hub |-> "hubA1", mint |-> Mint1,
     remaining |-> Repeat(<<SchedulePda(0), VaultPda(0)>>, k), max_schedules |-> m]

\* C31: for every max_schedules and every length n of the remaining accounts,
\* a batch crank call that succeeds has attempted min(max_schedules,
\* MAX_SCHEDULES_PER_CRANK, floor(n / 2)) pairs, hence at most
\* MAX_SCHEDULES_PER_CRANK.
C31_AttemptsMinOfThree ==
    (HubActive /\ schedules[0] # NoAccount)
    => \A m \in MaxSchedulesInputs, k \in PairCounts :
          LET r == CurrentCall(RepeatedCall(m, k))
          IN  r.err = "Ok"
              => /\ Len(r.outcomes) = Min(Min(m, MAX_SCHEDULES_PER_CRANK), k)
                 /\ Len(r.outcomes) <= MAX_SCHEDULES_PER_CRANK

(***************************************************************************)
(* The amount one settlement moves                                         *)
(***************************************************************************)
\* The amount the specification has a settlement of s move out of a vault
\* holding `held` at the current clock; -1 when the unlock computation fails.
ActualTransfer(s, held) ==
    LET t == get_transferable_amount(s, clock)
    IN  IF ~t.ok THEN -1
        ELSE IF s.amount_transferred >= s.total_amount THEN 0
        ELSE IF t.val <= held THEN t.val ELSE held

\* The batch crank of the one pair of `id`, on a ledger where its vault holds
\* `held`.
PairCallWithVault(id, held) ==
    crank_call(program_config, schedules,
               [vaults EXCEPT ![id] = Some([Unwrap(vaults[id]) EXCEPT !.amount = held])],
               balances, clock,
               [hub |-> "hubA1", mint |-> Mint1,
                remaining |-> <<SchedulePda(id), VaultPda(id)>>,
                max_schedules |-> MAX_SCHEDULES_PER_CRANK])

\* C32: for a vault holding any amount from nothing to the schedule's total, a
\* settlement of the pair, by either crank, moves exactly
\* min(transferable, vault balance), adds exactly that to amount_transferred
\* and takes exactly that out of the vault, never more than the vault holds;
\* with an empty vault it moves nothing and leaves amount_transferred alone.
C32_MovesMinOfTransferableAndVault ==
    \A id \in ScheduleIds :
       schedules[id] # NoAccount =>
       LET s == Unwrap(schedules[id])
           v == Unwrap(vaults[id])
       IN  \A held \in 0 .. s.total_amount :
              LET actual == ActualTransfer(s, held)
                  h == crank_vesting_schedule_handler(s, [v EXCEPT !.amount = held], clock)
              IN  actual >= 0 =>
                  /\ actual <= held
                  /\ h.err = "Ok" /\ h.amount = actual
                  /\ (HubActive /\ Unwrap(program_config).distribution_hub = Hub1)
                     => LET r == PairCallWithVault(id, held)
                        IN  /\ r.err = "Ok"
                            /\ r.balances = [balances EXCEPT !["hubA1"] = @ + actual]
                            /\ Unwrap(r.vaults[id]).amount = held - actual
                            /\ r.schedules[id] =
                                  Some([s EXCEPT !.amount_transferred = @ + actual])
                            /\ r.processed = IF actual > 0 THEN 1 ELSE 0

\* A batch crank has just moved a part of a schedule to the hub.
C32_Witness ==
    /\ res.op = "crank_vesting_schedules"
    /\ res.err = "Ok"
    /\ res.processed = 1
    /\ \E id \in ScheduleIds :
          /\ schedules[id] # NoAccount
          /\ Unwrap(schedules[id]).amount_transferred > 0
          /\ Unwrap(vaults[id]).amount > 0
          /\ balances["hubA1"] = Unwrap(schedules[id]).amount_transferred

(***************************************************************************)
(* Conservation of the tokens of a schedule                                *)
(***************************************************************************)
\* The sum of f[x] over the elements x of S.
RECURSIVE SumOver(_, _)
SumOver(S, f) ==
    IF S = {} THEN 0
    ELSE LET x == CHOOSE y \in S : TRUE IN f[x] + SumOver(S \ {x}, f)

LiveIds == { id \in ScheduleIds : schedules[id] # NoAccount }

\* The tokens credited so far to the accounts a crank can pay: every token
\* account but the depositor's starts empty and only cranks credit it.
TotalCredited == SumOver(TokenAccountKeys \ {"depositor"}, balances)

\* The sum of amount_transferred over the schedule accounts.
TotalReleased ==
    SumOver(LiveIds, [id \in ScheduleIds |->
                         IF schedules[id] = NoAccount THEN 0
                         ELSE Unwrap(schedules[id]).amount_transferred])

\* The tokens the vaults hold.
TotalInVaults ==
    SumOver(LiveIds, [id \in ScheduleIds |->
                         IF vaults[id] = NoAccount THEN 0 ELSE Unwrap(vaults[id]).amount])

\* The tokens the depositor has paid into vaults.
TotalDeposited == InitialFunding - balances["depositor"]

\* Every schedule account has its vault, and the vault balance and
\* amount_transferred add up to total_amount.
VaultPlusReleasedIsTotal ==
    \A id \in ScheduleIds :
       /\ (schedules[id] = NoAccount) = (vaults[id] = NoAccount)
       /\ schedules[id] # NoAccount
          => Unwrap(vaults[id]).amount + Unwrap(schedules[id]).amount_transferred
                = Unwrap(schedules[id]).total_amount

\* Some schedule has been closed: its id is below the counter and its account
\* is gone.
SomeClosed == \E id \in ScheduleIds : Closed(id)

\* C33 as stated: vault balance + amount_transferred = total_amount for every
\* schedule, and the tokens credited by cranks equal the sum of
\* amount_transferred over the schedules.
C33_AsSpecified ==
    /\ VaultPlusReleasedIsTotal
    /\ TotalCredited = TotalReleased

\* C33: vault balance + amount_transferred = total_amount for every schedule
\* account; the tokens credited by cranks equal the sum of amount_transferred
\* over the schedule accounts as long as none has been closed, and always
\* equal the tokens deposited less the tokens the vaults still hold, a closed
\* schedule counting with the whole of its total_amount.
C33_TokensConserved ==
    /\ VaultPlusReleasedIsTotal
    /\ ~SomeClosed => TotalCredited = TotalReleased
    /\ TotalCredited = TotalDeposited - TotalInVaults
    /\ TotalCredited >= TotalReleased

\* Two schedules exist, cranks have moved a part of one, and none is closed.
C33_Witness ==
    /\ ~SomeClosed
    /\ Cardinality(LiveIds) >= 2
    /\ TotalReleased > 0
    /\ TotalInVaults > 0
    /\ res.op \in CrankOps /\ res.err = "Ok"

\* A schedule has been closed after its tokens were paid out.
C33_ClosedWitness ==
    /\ SomeClosed
    /\ TotalCredited > TotalReleased

(***************************************************************************)
(* Every schedule is eventually paid out                                   *)
(***************************************************************************)
\* The batch crank of the one pair of `id`, paid to the hub's token account.
PairCall(id) ==
    [hub |-> "hubA1", mint |-> Mint1, remaining |-> <<SchedulePda(id), VaultPda(id)>>,
     max_schedules |-> MAX_SCHEDULES_PER_CRANK]

\* The program with the admin as the only signer and the batch crank called on
\* one pair at a time.
NextFair ==
    \/ Initialize(Admin)
    \/ UpdateDistributionHub(Admin, Hub1)
    \/ \E id \in ScheduleIds, p \in CreateParams :
          CreateVestingSchedule(Admin, id, p, "depositor", "rcp", Mint1)
    \/ \E id \in ScheduleIds : CrankVestingSchedules(PairCall(id))
    \/ \E id \in ScheduleIds : CrankVestingSchedule(id, "rcp", Mint1)
    \/ \E id \in ScheduleIds : CloseVestingSchedule(id)
    \/ Tick(MaxTime)

\* The clock keeps advancing up to MaxTime, and the crank of every pair keeps
\* being called: the crank is permissionless and any keeper may call it.
SpecFair ==
    /\ Init
    /\ [][NextFair]_vars
    /\ WF_vars(Tick(MaxTime))
    /\ \A id \in ScheduleIds : WF_vars(CrankVestingSchedules(PairCall(id)))

\* The schedule exists, a hub is set and the bounded clock will reach the end
\* of its vesting.
Due(id) ==
    /\ schedules[id] # NoAccount
    /\ HubActive
    /\ Unwrap(schedules[id]).vesting_end_timestamp <= MaxTime

\* All of the schedule has been paid out of its vault.
Settled(id) ==
    /\ schedules[id] # NoAccount
    /\ Unwrap(schedules[id]).amount_transferred = Unwrap(schedules[id]).total_amount
    /\ Unwrap(vaults[id]).amount = 0

\* Both cranks of the pair move nothing and change nothing in the ledger, and
\* the constraints of close_vesting_schedule are met.
SettledForGood(id) ==
    LET s == Unwrap(schedules[id])
        v == Unwrap(vaults[id])
        h == crank_vesting_schedule_handler(s, v, clock)
        r == CurrentCall(PairCall(id))
    IN  /\ h.err = "Ok" /\ h.amount = 0
        /\ r.schedules = schedules /\ r.vaults = vaults /\ r.balances = balances
        /\ r.processed = 0
        /\ HubActive => r.err = "Ok"
        /\ close_vesting_schedule_constraints(s, v) = "Ok"

\* C34: under a clock that keeps advancing and a crank that keeps being called,
\* every schedule whose vesting end the clock reaches, with a hub set, comes to
\* a state with amount_transferred = total_amount and an empty vault; in such a
\* state the cranks of the schedule are no-ops and close_vesting_schedule is
\* enabled, and the schedule leaves that state only by being closed.
C34_EventuallyFullyVested ==
    /\ \A id \in ScheduleIds : Due(id) ~> Settled(id)
    /\ [](\A id \in ScheduleIds : Settled(id) => SettledForGood(id))
    /\ [][\A id \in ScheduleIds : Settled(id) => (Settled(id)' \/ Closed(id)')]_vars

\* A batch crank at the end of the vesting has just paid out the rest of a
\* schedule that was due.
C34_Witness ==
    /\ res.op = "crank_vesting_schedules" /\ res.err = "Ok" /\ res.processed = 1
    /\ \E id \in ScheduleIds :
          /\ Due(id)
          /\ Settled(id)
          /\ clock >= Unwrap(schedules[id]).vesting_end_timestamp
          /\ balances["hubA1"] >= Unwrap(schedules[id]).total_amount

(***************************************************************************)
(* The batch crank while the hub is being rotated                          *)
(***************************************************************************)
\* Every token account offered as the hub's, with no pair and with the pair of
\* each schedule.
RotateCrankInputs ==
    { [hub |-> h[1], mint |-> h[2], remaining |-> rem,
       max_schedules |-> MAX_SCHEDULES_PER_CRANK] :
      h \in HubAccountArgs,
      rem \in {<<>>} \cup { <<SchedulePda(id), VaultPda(id)>> : id \in ScheduleIds } }

RotateCreateParams == { p \in CreateParams : p.cliff_timestamp = 1 /\ p.total_amount > 0 }

\* The program with the admin rotating the hub between Hub1 and Hub2 while
\* schedules are created and cranked.
NextRotate ==
    \/ Initialize(Admin)
    \/ \E h \in {Hub1, Hub2} : UpdateDistributionHub(Admin, h)
    \/ \E p \in RotateCreateParams :
          CreateVestingSchedule(Admin, 0, p, "depositor", "rcp", Mint1)
    \/ \E c \in RotateCrankInputs : CrankVestingSchedules(c)
    \/ CrankVestingSchedule(0, "rcp", Mint1)
    \/ Tick(MaxHubTime)

SpecRotate == Init /\ [][NextRotate]_vars

\* The token account is not the active hub's, or does not hold the mint of the
\* schedules.
NotHubAccount(k) ==
    \/ program_config = NoAccount
    \/ TokenAccountOwner(k) # Unwrap(program_config).distribution_hub
    \/ TokenAccountMint(k) # Mint1

\* The token accounts of the pending hub.
PendingHubAccounts ==
    IF program_config = NoAccount \/ Unwrap(program_config).pending_hub = None THEN {}
    ELSE { k \in TokenAccountKeys :
              TokenAccountOwner(k) = Unwrap(Unwrap(program_config).pending_hub) }

\* The step is a batch crank that moved tokens.
BatchCrankPaid == res'.op = "crank_vesting_schedules" /\ balances' # balances

\* C35 as stated: every call that offers a token account that is not the
\* active hub's, or holds another mint, is rejected.
C35_AsSpecified ==
    \A c \in RotateCrankInputs : NotHubAccount(c.hub) => CurrentCall(c).err # "Ok"

\* C35: a batch crank credits one token account only, one the hub active at
\* the call owns and of the schedules' mint, and never an account of the
\* pending hub; a call that offers another account changes nothing in the
\* ledger, and it is rejected when it attempts at least one pair or when the
\* account's owner is not the active hub.
C35_OnlyActiveHubIsPaid ==
    /\ [](\A c \in RotateCrankInputs :
             NotHubAccount(c.hub)
             => /\ SameLedger(CurrentCall(c), [schedules |-> schedules, vaults |-> vaults,
                                               balances |-> balances])
                /\ (Len(c.remaining) > 0
                    \/ program_config = NoAccount
                    \/ TokenAccountOwner(c.hub) # Unwrap(program_config).distribution_hub)
                   => CurrentCall(c).err # "Ok")
    /\ [][BatchCrankPaid
          => /\ program_config' = program_config
             /\ \E k \in TokenAccountKeys :
                   /\ ~NotHubAccount(k)
                   /\ k \notin PendingHubAccounts
                   /\ balances'[k] > balances[k]
                   /\ \A k2 \in TokenAccountKeys \ {k} : balances'[k2] = balances[k2]]_vars

\* A batch crank has just paid the account of Hub1 while Hub2 is pending, and
\* Hub2's account holds nothing.
C35_Witness ==
    /\ res.op = "crank_vesting_schedules" /\ res.err = "Ok" /\ res.processed = 1
    /\ program_config # NoAccount
    /\ Unwrap(program_config).distribution_hub = Hub1
    /\ Unwrap(program_config).pending_hub = Some(Hub2)
    /\ balances["hubA1"] > 0
    /\ balances["hubA2"] = 0

\* After the rotation a batch crank has paid the account of Hub2.
C35_RotatedWitness ==
    /\ res.op = "crank_vesting_schedules" /\ res.err = "Ok" /\ res.processed = 1
    /\ Unwrap(program_config).distribution_hub = Hub2
    /\ balances["hubA1"] > 0
    /\ balances["hubA2"] > 0

(***************************************************************************)
(* Batch cranks of disjoint schedules                                      *)
(***************************************************************************)
\* The batch crank c on the ledger l, at the current clock.
Apply(l, c) == crank_call(program_config, l.schedules, l.vaults, l.balances, clock, c)

\* The ids of the accounts a call lists.
Touched(c) == { c.remaining[i].id : i \in 1 .. Len(c.remaining) }

\* The pair of every schedule, a schedule with the vault of another, and an
\* account that is no schedule.
CommutePairs ==
    { <<SchedulePda(id), VaultPda(id)>> : id \in ScheduleIds }
    \cup { <<SchedulePda(0), VaultPda(1)>>, <<FakeSchedule, VaultPda(0)>> }

\* The calls paid to the hub's token account that list one of the pairs.
CommuteSingleCalls ==
    { [hub |-> "hubA1", mint |-> Mint1, remaining |-> rem,
       max_schedules |-> MAX_SCHEDULES_PER_CRANK] : rem \in CommutePairs }

\* The calls that list one or two of the pairs.
CommuteCalls ==
    CommuteSingleCalls
    \cup { [hub |-> "hubA1", mint |-> Mint1, remaining |-> p \o q,
            max_schedules |-> MAX_SCHEDULES_PER_CRANK] :
           p \in CommutePairs, q \in CommutePairs }

\* C36: two batch cranks at the same clock, one of one or two pairs and one of
\* one pair, whose lists share no schedule and no vault give the same schedules, vaults and token balances in either order,
\* and each leaves the schedules and vaults it does not list as they were.
C36_DisjointCallsCommute ==
    [](LET l == [schedules |-> schedules, vaults |-> vaults, balances |-> balances]
       IN  \A c1 \in CommuteCalls :
              /\ \A id \in ScheduleIds \ Touched(c1) :
                    /\ Apply(l, c1).schedules[id] = schedules[id]
                    /\ Apply(l, c1).vaults[id] = vaults[id]
              /\ \A c2 \in CommuteSingleCalls :
                    Touched(c1) \cap Touched(c2) = {}
                    => SameLedger(Apply(Apply(l, c1), c2), Apply(Apply(l, c2), c1)))

\* A batch crank has just paid a part of schedule 0, and a crank of schedule 1
\* would pay a different amount now than a second crank of schedule 0.
C36_Witness ==
    /\ res.op = "crank_vesting_schedules" /\ res.err = "Ok" /\ res.processed = 1
    /\ schedules[0] # NoAccount /\ schedules[1] # NoAccount
    /\ Unwrap(schedules[0]).amount_transferred > 0
    /\ CurrentCall(PairCall(0)).processed = 1
    /\ CurrentCall(PairCall(1)).processed = 1
    /\ CurrentCall(PairCall(0)).balances # CurrentCall(PairCall(1)).balances

(***************************************************************************)
(* What each instruction leaves alone                                      *)
(***************************************************************************)
\* The step is a call of the instruction `op`, or leaves the ledger and the
\* configuration alone.
StepOf(op) == res'.op = op

\* The hub, the pending hub and the deadline of a configuration account.
HubFields(config) ==
    IF config = NoAccount THEN <<>>
    ELSE <<Unwrap(config).distribution_hub, Unwrap(config).pending_hub,
           Unwrap(config).hub_update_timelock>>

\* The schedule counter of a configuration account.
Counter(config) == IF config = NoAccount THEN <<>> ELSE <<Unwrap(config).total_schedules>>

\* C37: a crank, batch or single, successful or not, leaves the whole
\* configuration account as it was; update_distribution_hub leaves
\* total_schedules, the admin, every schedule, every vault and every token
\* balance as they were; create_vesting_schedule leaves the hub, the pending
\* hub, the deadline and the admin as they were.
C37_Frames ==
    [][/\ (StepOf("crank_vesting_schedules") \/ StepOf("crank_vesting_schedule"))
          => program_config' = program_config
       /\ StepOf("update_distribution_hub")
          => /\ Counter(program_config') = Counter(program_config)
             /\ (program_config = NoAccount) = (program_config' = NoAccount)
             /\ program_config # NoAccount
                => Unwrap(program_config').admin = Unwrap(program_config).admin
             /\ schedules' = schedules
             /\ vaults' = vaults
             /\ balances' = balances
       /\ StepOf("create_vesting_schedule")
          => /\ HubFields(program_config') = HubFields(program_config)
             /\ program_config # NoAccount
                => Unwrap(program_config').admin = Unwrap(program_config).admin]_vars

\* A rotation to Hub2 has just been confirmed while a schedule that was created
\* before and partly paid out exists.
C37_Witness ==
    /\ res.op = "update_distribution_hub" /\ res.err = "Ok"
    /\ res.outcomes = <<"updated">>
    /\ Unwrap(program_config).distribution_hub = Hub2
    /\ Unwrap(program_config).total_schedules = 1
    /\ schedules[0] # NoAccount
    /\ Unwrap(schedules[0]).amount_transferred > 0
    /\ Unwrap(vaults[0]).amount > 0

(***************************************************************************)
(* A call with the pending address                                         *)
(***************************************************************************)
\* The step is update_distribution_hub called by `signer` with the address P
\* while P is pending.
PendingCall(signer, P) ==
    /\ program_config # NoAccount
    /\ Unwrap(program_config).pending_hub = Some(P)
    /\ clock' = clock
    /\ res'.op = "update_distribution_hub"
    /\ res'.arg = <<signer, P>>

ExactOrOverflow(s, t, u) == u = Ok(UnlockCurve(s, t)) \/ u = Err("MathOverflow")

\* The schedule with its three timestamps in every order, the orders creation
\* refuses included.
Reordered(s) ==
    LET ts == <<s.cliff_timestamp, s.vesting_start_timestamp, s.vesting_end_timestamp>>
    IN  { [s EXCEPT !.cliff_timestamp = ts[i], !.vesting_start_timestamp = ts[j],
                    !.vesting_end_timestamp = ts[k]] :
          i \in 1 .. 3, j \in 1 .. 3, k \in 1 .. 3 }

\* Amounts to add: the ends of the u64 range and the amounts of the schedule.
AddInputs(s) == {0, 1, U64_MAX - 1, U64_MAX, s.total_amount, s.amount_transferred}

\* C39: for every schedule drawn, with its timestamps in any order, the unlock
\* function returns the exact value of the piecewise unlock curve or
\* MathOverflow, and MathOverflow only where a difference of the linear branch
\* exceeds i64::MAX; the new amount_transferred is the exact sum of the old
\* one and the transfer, or MathOverflow when the sum exceeds u64::MAX, never
\* a wrapped value.
C39_NoWrapping ==
    probe.done =>
        /\ \A r \in ProbeResults :
              /\ ExactOrOverflow(probe.s, r[1], r[2])
              /\ (r[2] = Err("MathOverflow")) = LinearBranchOverflows(probe.s, r[1])
        /\ \A s \in Reordered(probe.s), t \in {probe.t1, probe.t2} :
              /\ ExactOrOverflow(s, t, calculate_unlocked_amount(s, t))
              /\ calculate_unlocked_amount(s, t) = Err("MathOverflow")
                 => /\ s.vesting_start_timestamp < s.vesting_end_timestamp
                    /\ LinearBranchOverflows(s, t)
        /\ \A a \in AddInputs(probe.s), b \in AddInputs(probe.s) :
              new_amount_transferred(a, b)
                 = IF a + b <= U64_MAX THEN Ok(a + b) ELSE Err("MathOverflow")

\* The schedule from i64::MIN to i64::MAX with the largest total, evaluated at
\* 1, where the elapsed time does not fit i64, and at its end.
C39_Witness ==
    /\ probe.done
    /\ probe.s.total_amount = U64_MAX
    /\ probe.s.vesting_start_timestamp = I64_MIN
    /\ probe.s.vesting_end_timestamp = I64_MAX
    /\ probe.s.amount_transferred > 0
    /\ probe.t1 = 1
    /\ probe.u1 = Err("MathOverflow")
    /\ probe.u2 = Ok(U64_MAX)

====
